---- MODULE Spec2Model ----
(***************************************************************************)
(* A model of the privacy-and-transaction core of the seedless wallet:     *)
(*   - the stealth address manager  (src/src/utils/burner.ts:405-627)      *)
(*   - the burner wallet manager    (src/src/utils/burner.ts:1-229)        *)
(*   - the gasless swap composer    (src/src/utils/jupiter.ts)             *)
(*                                                                         *)
(* Every exported async function is a call of a task.  A call advances one *)
(* `await` at a time: each SecureStore / ledger / router round trip is one *)
(* atomic step, and steps of different tasks interleave freely, as the     *)
(* JavaScript event loop lets them.                                        *)
(***************************************************************************)
EXTENDS Integers, Sequences, FiniteSets, TLC

\* ------------------------------------------------------------------ bounds

\* The persisted stealth counter is not advanced past this value.
MaxIndex == 3

\* The callers whose awaits may interleave: a double tap is two calls in flight.
Tasks == {1, 2}

\* ------------------------------------------------------- the secure store

\* SecureStore.getItemAsync resolves to null for a key that holds nothing.
NoValue == "null"

\* The values Crypto.getRandomBytesAsync(32) may yield, as hex strings.
Seeds == {"a1", "b2"}

\* The index written with its last digit only.
IndexToLastDigit(n) == ToString(n % 10)

\* index.toString(): the decimal string of a non-negative integer.
IndexToString(n) == ToString(n)

\* parseInt(indexStr, 10) on a string the code itself wrote.
ParseInt(s) == CHOOSE n \in 0..MaxIndex : IndexToString(n) = s

\* indexStr ? parseInt(indexStr, 10) : 0
IndexOf(indexStr) == IF indexStr = NoValue \/ indexStr = "" THEN 0 ELSE ParseInt(indexStr)

\* ---------------------------------------------------------- key derivation

\* Crypto.digestStringAsync(SHA256, input): an ideal (injective) hash of its input.
hashString(input) == <<"sha256", input>>

\* Keypair.fromSeed(hash): the public key is a function of the seed alone.
KeypairFromSeed(hash) == [secretKey |-> hash, publicKey |-> <<"ed25519", hash>>]

\* publicKey.toBase58()
ToBase58(pk) == <<"base58", pk>>

StealthInput(masterSeed, index) == masterSeed \o ":stealth:" \o IndexToString(index)

deriveStealthKeypairForIndex(masterSeed, index) ==
    KeypairFromSeed(hashString(StealthInput(masterSeed, index)))

deriveStealthKeypairs(masterSeed) ==
    [scanKeypair  |-> KeypairFromSeed(hashString(masterSeed \o ":scan")),
     spendKeypair |-> KeypairFromSeed(hashString(masterSeed \o ":spend"))]

AddressOf(keypair) == ToBase58(keypair.publicKey)

StealthAddressFor(masterSeed, index) ==
    AddressOf(deriveStealthKeypairForIndex(masterSeed, index))

\* An address that no (seed, index) pair derives.
ForeignAddress == ToBase58(<<"ed25519", hashString("foreign")>>)

\* The addresses a caller may pass to getStealthKeypair.
AddressInputs ==
    {StealthAddressFor(s, i) : s \in Seeds, i \in 0..MaxIndex} \cup {ForeignAddress}

\* The failure value of getStealthKeypair.
NullKeypair == [secretKey |-> <<"null">>, publicKey |-> <<"null">>]

VARIABLES
    seedStore,      \* SecureStore[MASTER_SEED_KEY]: NoValue or a hex seed
    indexStore,     \* SecureStore[STEALTH_INDEX_KEY]: NoValue or a decimal string
    st,             \* st[t]: the stealth call task t is running
    issued,         \* history: the {index, address} records returned so far
    everOut,        \* history: the indices generateStealthAddress has returned
    sinceReset,     \* history: those returned since the counter was last absent
    reused,         \* history: a generateStealthAddress returned an index of everOut
    genCount        \* history: generateStealthAddress returns since the counter was absent

stealthVars == <<seedStore, indexStore, st, issued, everOut, sinceReset, reused, genCount>>


VARIABLES
    listStore,      \* SecureStore[BURNER_LIST_KEY]: NullItem or the JSON of the list
    secretStore,    \* secretStore[id] = SecureStore[BURNER_KEY_PREFIX + id]
    bt,             \* bt[t]: the burner call task t is running
    destroyedIds,   \* history: the ids a destroyBurner call has ended for
    serialList      \* history: the list the returned calls make, applied one by one

burnerVars == <<listStore, secretStore, bt, destroyedIds, serialList>>

VARIABLES
    router,         \* the SwapInstructionsResponse the router answers with
    net,            \* "up", or "silent" once the router and the ledger stop answering
    sw              \* the prepareSwap call in progress

swapVars == <<router, net, sw>>

VARIABLES
    swp             \* the sweep the stealth screen is running

sweepVars == <<swp>>

VARIABLES
    clock,          \* Date.now()
    qv              \* a quote's timestamp and the isQuoteValid call made on it

quoteVars == <<clock, qv>>

VARIABLES
    dv              \* the keypairs derived from one master seed

deriveVars == <<dv>>

VARIABLES
    xs,             \* SwapScreen: the quote on display and the swap being executed
    ws              \* WalletScreen: the wallet, its balances and the fetches in flight

screenVars == <<xs, ws>>

vars == <<stealthVars, burnerVars, swapVars, sweepVars, quoteVars, deriveVars, screenVars>>

\* ------------------------------------------------- stealth address manager

\* The record a task holds between calls.  `label` and `createdAt` of a
\* StealthAddress are carried through untouched by the code and are left out.
IdleTask ==
    [pc |-> "idle", op |-> "none", seed |-> NoValue, index |-> 0,
     addr |-> ForeignAddress, idx |-> 0, res |-> NoValue, ov |-> {}]

\* A task may start a call when it runs none.
Free(t) == st[t].pc \in {"idle", "done"}

InFlight(t) == ~Free(t)

StealthRecord(masterSeed, i) == [index |-> i, address |-> StealthAddressFor(masterSeed, i)]

StealthInit ==
    /\ seedStore = NoValue
    /\ indexStore = NoValue
    /\ st = [t \in Tasks |-> IdleTask]
    /\ issued = {}
    /\ everOut = {}
    /\ sinceReset = {}
    /\ reused = FALSE
    /\ genCount = 0

StealthHistoryUnchanged == UNCHANGED <<issued, everOut, sinceReset, reused, genCount>>

\* The calls of generateStealthAddress in flight beside task t's.
Generating(t) == {u \in Tasks \ {t} : InFlight(u) /\ st[u].op = "generate"}

\* The largest counter value the store or a call in flight holds.
PendingMax ==
    LET held == {IndexOf(indexStore)} \cup
                {st[u].index : u \in {v \in Tasks : InFlight(v) /\ st[v].op = "generate"}}
    IN  CHOOSE m \in held : \A n \in held : n <= m

\* generateStealthAddress(label) is called: its first await is getOrCreateMasterSeed.
\* The guard keeps the counter within MaxIndex whatever the calls in flight write.
generateStealthAddress_call(t) ==
    /\ Free(t)
    /\ PendingMax + Cardinality(Generating(t)) + 1 <= MaxIndex
    /\ st' = [u \in Tasks |->
                IF u = t THEN [IdleTask EXCEPT !.pc = "seedRead", !.op = "generate",
                                               !.ov = Generating(t)]
                ELSE IF u \in Generating(t) THEN [st[u] EXCEPT !.ov = @ \cup {t}]
                ELSE st[u]]
    /\ UNCHANGED <<seedStore, indexStore>>
    /\ StealthHistoryUnchanged
    /\ UNCHANGED <<burnerVars, swapVars, sweepVars, quoteVars, deriveVars, screenVars>>

getAllStealthAddresses_call(t) ==
    /\ Free(t)
    /\ st' = [st EXCEPT ![t] = [IdleTask EXCEPT !.pc = "seedRead", !.op = "getAll"]]
    /\ UNCHANGED <<seedStore, indexStore>>
    /\ StealthHistoryUnchanged
    /\ UNCHANGED <<burnerVars, swapVars, sweepVars, quoteVars, deriveVars, screenVars>>

getStealthKeypair_call(t) ==
    /\ Free(t)
    /\ \E address \in AddressInputs, index \in 0..MaxIndex :
          st' = [st EXCEPT ![t] = [IdleTask EXCEPT !.pc = "seedRead", !.op = "getKeypair",
                                                   !.addr = address, !.idx = index]]
    /\ UNCHANGED <<seedStore, indexStore>>
    /\ StealthHistoryUnchanged
    /\ UNCHANGED <<burnerVars, swapVars, sweepVars, quoteVars, deriveVars, screenVars>>

getStealthMetaAddress_call(t) ==
    /\ Free(t)
    /\ st' = [st EXCEPT ![t] = [IdleTask EXCEPT !.pc = "seedRead", !.op = "getMeta"]]
    /\ UNCHANGED <<seedStore, indexStore>>
    /\ StealthHistoryUnchanged
    /\ UNCHANGED <<burnerVars, swapVars, sweepVars, quoteVars, deriveVars, screenVars>>

resetStealthIndex_call(t) ==
    /\ Free(t)
    /\ st' = [st EXCEPT ![t] = [IdleTask EXCEPT !.pc = "delete", !.op = "reset"]]
    /\ UNCHANGED <<seedStore, indexStore>>
    /\ StealthHistoryUnchanged
    /\ UNCHANGED <<burnerVars, swapVars, sweepVars, quoteVars, deriveVars, screenVars>>

\* Where a call goes on once getOrCreateMasterSeed has returned.
AfterSeed(op) == IF op \in {"generate", "getAll"} THEN "indexRead" ELSE "return"

\* The test with the stored seed ignored: a seed is made on every call.
SeedMissingAlways(seed) == TRUE

\* if (!seed)
SeedMissing(seed) == seed = NoValue \/ seed = ""

\* getOrCreateMasterSeed: let seed = await SecureStore.getItemAsync(MASTER_SEED_KEY)
getOrCreateMasterSeed_read(t) ==
    /\ st[t].pc = "seedRead"
    /\ st' = [st EXCEPT ![t].seed = seedStore,
                        ![t].pc = IF SeedMissing(seedStore)
                                  THEN "seedWrite" ELSE AfterSeed(st[t].op)]
    /\ UNCHANGED <<seedStore, indexStore>>
    /\ StealthHistoryUnchanged
    /\ UNCHANGED <<burnerVars, swapVars, sweepVars, quoteVars, deriveVars, screenVars>>

\* getOrCreateMasterSeed: if (!seed) { seed = random; await setItemAsync(MASTER_SEED_KEY, seed) }
getOrCreateMasterSeed_write(t) ==
    /\ st[t].pc = "seedWrite"
    /\ \E seed \in Seeds :
          /\ seedStore' = seed
          /\ st' = [st EXCEPT ![t].seed = seed, ![t].pc = AfterSeed(st[t].op)]
    /\ UNCHANGED indexStore
    /\ StealthHistoryUnchanged
    /\ UNCHANGED <<burnerVars, swapVars, sweepVars, quoteVars, deriveVars, screenVars>>

\* const indexStr = await getItemAsync(STEALTH_INDEX_KEY); index = indexStr ? parseInt : 0
StealthIndex_read(t) ==
    /\ st[t].pc = "indexRead"
    /\ st' = [st EXCEPT ![t].index = IndexOf(indexStore),
                        ![t].pc = IF st[t].op = "generate" THEN "indexWrite" ELSE "return"]
    /\ UNCHANGED <<seedStore, indexStore>>
    /\ StealthHistoryUnchanged
    /\ UNCHANGED <<burnerVars, swapVars, sweepVars, quoteVars, deriveVars, screenVars>>

NextIndexStuck(index) == IndexToString(index)

\* The value generateStealthAddress persists: (index + 1).toString()
NextIndexString(index) == IndexToString(index + 1)

\* await SecureStore.setItemAsync(STEALTH_INDEX_KEY, (index + 1).toString())
generateStealthAddress_write(t) ==
    /\ st[t].pc = "indexWrite"
    /\ indexStore' = NextIndexString(st[t].index)
    /\ st' = [st EXCEPT ![t].pc = "return"]
    /\ UNCHANGED seedStore
    /\ StealthHistoryUnchanged
    /\ UNCHANGED <<burnerVars, swapVars, sweepVars, quoteVars, deriveVars, screenVars>>

\* generateStealthAddress: derive the keypair of `index` and return the record.
generateStealthAddress_return(t) ==
    /\ st[t].pc = "return" /\ st[t].op = "generate"
    /\ LET rec == StealthRecord(st[t].seed, st[t].index) IN
          /\ st' = [st EXCEPT ![t].pc = "done", ![t].res = rec]
          /\ issued' = issued \cup {rec}
          /\ reused' = (reused \/ rec.index \in everOut)
          /\ everOut' = everOut \cup {rec.index}
          /\ sinceReset' = sinceReset \cup {rec.index}
          /\ genCount' = genCount + 1
    /\ UNCHANGED <<seedStore, indexStore>>
    /\ UNCHANGED <<burnerVars, swapVars, sweepVars, quoteVars, deriveVars, screenVars>>

AllUpToInclusive(masterSeed, maxIndex) ==
    [i \in 1..(maxIndex + 1) |-> StealthRecord(masterSeed, i - 1)]

\* for (let i = 0; i < maxIndex; i++) addresses.push({index: i, address: derive(i)})
AllUpTo(masterSeed, maxIndex) ==
    [i \in 1..maxIndex |-> StealthRecord(masterSeed, i - 1)]

getAllStealthAddresses_return(t) ==
    /\ st[t].pc = "return" /\ st[t].op = "getAll"
    /\ LET addresses == AllUpTo(st[t].seed, st[t].index) IN
          /\ st' = [st EXCEPT ![t].pc = "done", ![t].res = addresses]
          /\ issued' = issued \cup {addresses[i] : i \in 1..Len(addresses)}
    /\ UNCHANGED <<seedStore, indexStore, everOut, sinceReset, reused, genCount>>
    /\ UNCHANGED <<burnerVars, swapVars, sweepVars, quoteVars, deriveVars, screenVars>>

CheckedKeypairUnverified(masterSeed, address, index) ==
    deriveStealthKeypairForIndex(masterSeed, index)

\* getStealthKeypair: null unless the re-derived public key is `address`.
CheckedKeypair(masterSeed, address, index) ==
    LET keypair == deriveStealthKeypairForIndex(masterSeed, index) IN
    IF AddressOf(keypair) # address THEN NullKeypair ELSE keypair

getStealthKeypair_return(t) ==
    /\ st[t].pc = "return" /\ st[t].op = "getKeypair"
    /\ st' = [st EXCEPT ![t].pc = "done",
                        ![t].res = CheckedKeypair(st[t].seed, st[t].addr, st[t].idx)]
    /\ UNCHANGED <<seedStore, indexStore>>
    /\ StealthHistoryUnchanged
    /\ UNCHANGED <<burnerVars, swapVars, sweepVars, quoteVars, deriveVars, screenVars>>

MetaAddress(masterSeed) ==
    [scanPubkey  |-> AddressOf(deriveStealthKeypairs(masterSeed).scanKeypair),
     spendPubkey |-> AddressOf(deriveStealthKeypairs(masterSeed).spendKeypair)]

getStealthMetaAddress_return(t) ==
    /\ st[t].pc = "return" /\ st[t].op = "getMeta"
    /\ st' = [st EXCEPT ![t].pc = "done", ![t].res = MetaAddress(st[t].seed)]
    /\ UNCHANGED <<seedStore, indexStore>>
    /\ StealthHistoryUnchanged
    /\ UNCHANGED <<burnerVars, swapVars, sweepVars, quoteVars, deriveVars, screenVars>>

\* A reset that clears the master seed together with the counter.
resetStealthIndex_deleteAll(t) ==
    /\ st[t].pc = "delete"
    /\ indexStore' = NoValue
    /\ seedStore' = NoValue
    /\ st' = [st EXCEPT ![t].pc = "done"]
    /\ sinceReset' = {}
    /\ genCount' = 0
    /\ UNCHANGED <<issued, everOut, reused>>
    /\ UNCHANGED <<burnerVars, swapVars, sweepVars, quoteVars, deriveVars, screenVars>>

\* await SecureStore.deleteItemAsync(STEALTH_INDEX_KEY)
resetStealthIndex_delete(t) ==
    /\ st[t].pc = "delete"
    /\ indexStore' = NoValue
    /\ st' = [st EXCEPT ![t].pc = "done"]
    /\ sinceReset' = {}
    /\ genCount' = 0
    /\ UNCHANGED <<seedStore, issued, everOut, reused>>
    /\ UNCHANGED <<burnerVars, swapVars, sweepVars, quoteVars, deriveVars, screenVars>>

StealthStep(t) ==
    \/ generateStealthAddress_call(t)
    \/ getAllStealthAddresses_call(t)
    \/ getStealthKeypair_call(t)
    \/ getStealthMetaAddress_call(t)
    \/ resetStealthIndex_call(t)
    \/ getOrCreateMasterSeed_read(t)
    \/ getOrCreateMasterSeed_write(t)
    \/ StealthIndex_read(t)
    \/ generateStealthAddress_write(t)
    \/ generateStealthAddress_return(t)
    \/ getAllStealthAddresses_return(t)
    \/ getStealthKeypair_return(t)
    \/ getStealthMetaAddress_return(t)
    \/ resetStealthIndex_delete(t)

\* --------------------------------------------------- burner wallet manager

\* The ids generateBurnerId may draw (8 random bytes, hex) and the secret keys
\* Keypair.generate may draw.
BurnerIds == {"id1", "id2"}

BurnerSecrets == {"k1", "k2"}

Labels == {"a", "b"}

\* createBurner is not called once the list, with the creations in flight, would hold
\* more than this many records.
MaxBurners == 2

\* What getItemAsync resolves to for a burner key that holds nothing (null).
NullItem == <<"null">>

\* The null a keypair or signature variable holds.
NoKeypair == [secretKey |-> NoValue, publicKey |-> <<"null">>]

NoSignature == <<"null">>

\* Buffer.from(secretKey).toString('base64') and its inverse Buffer.from(s, 'base64').
Base64(secretKey) == <<"base64", secretKey>>

FromBase64(text) == text[2]

\* Keypair.fromSecretKey(secretKey)
KeypairFromSecretKey(secretKey) == [secretKey |-> secretKey, publicKey |-> <<"ed25519", secretKey>>]

\* JSON.stringify(burners) and JSON.parse(listJson) on what the code itself wrote.
JsonStringify(burners) == <<"json", burners>>

JsonParse(listJson) == listJson[2]

\* listBurners once getItemAsync(BURNER_LIST_KEY) has resolved to listJson.
ParseBurnerList(listJson) == IF listJson = NullItem THEN << >> ELSE JsonParse(listJson)

\* The addresses a caller may pass as recipient or sweepTo; new PublicKey(a) throws
\* for the malformed one.  NoValue stands for an omitted sweepTo.
MainAddress == "main"

MalformedAddress == "not-an-address"

IsValidPublicKey(a) == a = MainAddress

\* What connection.getBalance may report, in lamports.
Balances == {0, 5000, 5001}

\* const fee = 5000
SweepFee == 5000

\* The whole balance, with no fee held back.
SweepAmountNoFee(balance) == balance

\* const sendAmount = balance - fee
SweepAmount(balance) == balance - SweepFee

\* connection.sendRawTransaction resolves to the signature of the submitted transfer.
Signature(keypair, toPubkey, lamports) == <<"sig", keypair.publicKey, toPubkey, lamports>>

IdleBurner ==
    [pc |-> "idle", op |-> "none", id |-> NoValue, label |-> "a", keypair |-> NoKeypair,
     to |-> NoValue, amount |-> 0, balance |-> 0, burners |-> << >>, sig |-> NoSignature,
     res |-> NoValue, out |-> "none", fail |-> "none", caught |-> "none", tried |-> {},
     lookups |-> << >>]

BurnerInit ==
    /\ listStore = NullItem
    /\ secretStore = [id \in BurnerIds |-> NullItem]
    /\ bt = [t \in Tasks |-> IdleBurner]
    /\ destroyedIds = {}
    /\ serialList = << >>

BFree(t) == bt[t].pc \in {"idle", "done"}

\* What the returned call c does to a burner list when nothing else runs during it:
\* createBurner appends its record, destroyBurner filters its id out, updateBurnerLabel
\* relabels the first record of its id.
SerialEffect(c, burners) ==
    IF c.out # "returned" THEN burners
    ELSE IF c.op = "createBurner"
         THEN Append(burners, c.res)
    ELSE IF c.op = "destroyBurner"
         THEN SelectSeq(burners, LAMBDA b : b.id # c.id)
    ELSE IF c.op = "updateBurnerLabel" /\ \E i \in 1..Len(burners) : burners[i].id = c.id
         THEN LET index == CHOOSE i \in 1..Len(burners) :
                              burners[i].id = c.id /\ \A j \in 1..(i - 1) : burners[j].id # c.id
              IN [burners EXCEPT ![index].label = c.label]
    ELSE burners

\* The call of task t ends with record c: it returned or threw, and its locals go.
EndCall(t, c) ==
    /\ serialList' = SerialEffect(c, serialList)
    /\ bt' = [bt EXCEPT ![t] = [c EXCEPT !.pc = "done", !.burners = << >>, !.keypair = NoKeypair]]
    /\ destroyedIds' = IF c.op = "destroyBurner" THEN destroyedIds \cup {c.id}
                       ELSE destroyedIds

\* The awaited promise of `step` rejects and nothing catches it: the call throws.
Throw(t, step) ==
    EndCall(t, [bt[t] EXCEPT !.out = "threw", !.fail = step, !.tried = @ \cup {step}])

Return(t, c, value) == EndCall(t, [c EXCEPT !.out = "returned", !.res = value])

\* The call of task t goes on to `pc` having attempted `step`.
Goto(t, c, step, pc) ==
    /\ bt' = [bt EXCEPT ![t] = [c EXCEPT !.pc = pc, !.tried = @ \cup {step}]]
    /\ UNCHANGED <<destroyedIds, serialList>>

StoredList == ParseBurnerList(listStore)

\* getBurnerKeypair once getItemAsync(BURNER_KEY_PREFIX + id) has resolved.
LoadKeypair(id) ==
    IF secretStore[id] = NullItem THEN NoKeypair
    ELSE KeypairFromSecretKey(FromBase64(secretStore[id]))

BurnerRecord(id, label, keypair) ==
    [id |-> id, label |-> label, publicKey |-> ToBase58(keypair.publicKey)]

\* createBurner(label): const keypair = Keypair.generate()
CreatesInFlight == Cardinality({u \in Tasks : bt[u].op = "createBurner" /\ ~BFree(u)})

createBurner_call(t) ==
    /\ BFree(t)
    /\ Len(StoredList) + CreatesInFlight < MaxBurners
    /\ Len(serialList) + CreatesInFlight < MaxBurners
    /\ \E label \in Labels, secretKey \in BurnerSecrets :
          bt' = [bt EXCEPT ![t] = [IdleBurner EXCEPT !.pc = "c_id", !.op = "createBurner",
                     !.label = label, !.keypair = KeypairFromSecretKey(secretKey)]]
    /\ UNCHANGED <<listStore, secretStore, destroyedIds, serialList>>
    /\ UNCHANGED <<stealthVars, swapVars, sweepVars, quoteVars, deriveVars, screenVars>>

\* const id = await generateBurnerId(): 8 bytes of Crypto.getRandomBytesAsync, as hex
createBurner_generateBurnerId(t) ==
    /\ bt[t].pc = "c_id"
    /\ \/ \E id \in BurnerIds : Goto(t, [bt[t] EXCEPT !.id = id], "id", "c_secret")
       \/ Throw(t, "id")
    /\ UNCHANGED <<listStore, secretStore>>
    /\ UNCHANGED <<stealthVars, swapVars, sweepVars, quoteVars, deriveVars, screenVars>>

\* await SecureStore.setItemAsync(BURNER_KEY_PREFIX + id, secretKeyBase64)
createBurner_storeSecret(t) ==
    /\ bt[t].pc = "c_secret"
    /\ \/ /\ secretStore' = [secretStore EXCEPT ![bt[t].id] = Base64(bt[t].keypair.secretKey)]
          /\ Goto(t, bt[t], "secret", "c_list")
          /\ UNCHANGED listStore
       \/ /\ Throw(t, "secret")
          /\ UNCHANGED <<listStore, secretStore>>
    /\ UNCHANGED <<stealthVars, swapVars, sweepVars, quoteVars, deriveVars, screenVars>>

\* const burners = await listBurners()
createBurner_listBurners(t) ==
    /\ bt[t].pc = "c_list"
    /\ \/ Goto(t, [bt[t] EXCEPT !.burners = StoredList], "list", "c_save")
       \/ Throw(t, "list")
    /\ UNCHANGED <<listStore, secretStore>>
    /\ UNCHANGED <<stealthVars, swapVars, sweepVars, quoteVars, deriveVars, screenVars>>

\* burners.push(burner); await saveBurnerList(burners); return burner
createBurner_saveBurnerList(t) ==
    /\ bt[t].pc = "c_save"
    /\ LET burner == BurnerRecord(bt[t].id, bt[t].label, bt[t].keypair) IN
       \/ /\ listStore' = JsonStringify(Append(bt[t].burners, burner))
          /\ Return(t, [bt[t] EXCEPT !.tried = @ \cup {"save"}], burner)
       \/ /\ Throw(t, "save")
          /\ UNCHANGED listStore
    /\ UNCHANGED secretStore
    /\ UNCHANGED <<stealthVars, swapVars, sweepVars, quoteVars, deriveVars, screenVars>>

\* getBurnerKeypair(id)
getBurnerKeypair_call(t) ==
    /\ BFree(t)
    /\ \E id \in BurnerIds :
          bt' = [bt EXCEPT ![t] = [IdleBurner EXCEPT !.pc = "k_load", !.op = "getBurnerKeypair",
                                                     !.id = id]]
    /\ UNCHANGED <<listStore, secretStore, destroyedIds, serialList>>
    /\ UNCHANGED <<stealthVars, swapVars, sweepVars, quoteVars, deriveVars, screenVars>>

getBurnerKeypair_load(t) ==
    /\ bt[t].pc = "k_load"
    /\ \/ Return(t, [bt[t] EXCEPT !.tried = @ \cup {"load"}], LoadKeypair(bt[t].id))
       \/ Throw(t, "load")
    /\ UNCHANGED <<listStore, secretStore>>
    /\ UNCHANGED <<stealthVars, swapVars, sweepVars, quoteVars, deriveVars, screenVars>>

\* listBurners()
listBurners_call(t) ==
    /\ BFree(t)
    /\ bt' = [bt EXCEPT ![t] = [IdleBurner EXCEPT !.pc = "l_list", !.op = "listBurners"]]
    /\ UNCHANGED <<listStore, secretStore, destroyedIds, serialList>>
    /\ UNCHANGED <<stealthVars, swapVars, sweepVars, quoteVars, deriveVars, screenVars>>

listBurners_read(t) ==
    /\ bt[t].pc = "l_list"
    /\ \/ Return(t, [bt[t] EXCEPT !.tried = @ \cup {"list"}], StoredList)
       \/ Throw(t, "list")
    /\ UNCHANGED <<listStore, secretStore>>
    /\ UNCHANGED <<stealthVars, swapVars, sweepVars, quoteVars, deriveVars, screenVars>>

\* LAMPORTS_PER_SOL of @solana/web3.js
LamportsPerSol == 1000000000

\* balance / LAMPORTS_PER_SOL, as the fraction it is; 0 is the fraction 0 / LAMPORTS_PER_SOL.
InSol(lamports) == <<lamports, LamportsPerSol>>

\* What connection.getBalance does for one wallet: resolves with lamports, or rejects.
BalanceLookups ==
    {[ok |-> TRUE, lamports |-> balance] : balance \in Balances}
        \cup {[ok |-> FALSE, lamports |-> 0]}

\* getBurnerBalance with the catch returning -1 for a wallet it could not look up.
BalanceOrMinusOne(lookup) == IF lookup.ok THEN InSol(lookup.lamports) ELSE <<-1, 1>>

\* getBurnerBalance: the looked-up balance in SOL, or 0 when the lookup threw.
BalanceOrZero(lookup) == IF lookup.ok THEN InSol(lookup.lamports) ELSE InSol(0)

\* listBurnersWithBalances()
listBurnersWithBalances_call(t) ==
    /\ BFree(t)
    /\ bt' = [bt EXCEPT ![t] = [IdleBurner EXCEPT !.pc = "b_list",
                                                  !.op = "listBurnersWithBalances",
                                                  !.res = << >>]]
    /\ UNCHANGED <<listStore, secretStore, destroyedIds, serialList>>
    /\ UNCHANGED <<stealthVars, swapVars, sweepVars, quoteVars, deriveVars, screenVars>>

\* const burners = await listBurners(); an empty list is returned as it is
listBurnersWithBalances_listBurners(t) ==
    /\ bt[t].pc = "b_list"
    /\ \/ IF StoredList = << >>
          THEN Return(t, [bt[t] EXCEPT !.tried = @ \cup {"list"}], << >>)
          ELSE Goto(t, [bt[t] EXCEPT !.burners = StoredList], "list", "b_balance")
       \/ Throw(t, "list")
    /\ UNCHANGED <<listStore, secretStore>>
    /\ UNCHANGED <<stealthVars, swapVars, sweepVars, quoteVars, deriveVars, screenVars>>

\* for (const burner of burners) { const balance = await getBurnerBalance(burner.publicKey);
\* result.push({ ...burner, balance }) }; return result
listBurnersWithBalances_getBurnerBalance(t) ==
    /\ bt[t].pc = "b_balance"
    /\ \E lookup \in BalanceLookups :
          LET k == Len(bt[t].res) + 1
              burner == bt[t].burners[k]
              entry == [id |-> burner.id, label |-> burner.label,
                        publicKey |-> burner.publicKey, balance |-> BalanceOrZero(lookup)]
              c == [bt[t] EXCEPT !.lookups = Append(@, lookup),
                                 !.tried = @ \cup {"balance"}] IN
          IF k < Len(bt[t].burners)
          THEN Goto(t, [c EXCEPT !.res = Append(@, entry)], "balance", "b_balance")
          ELSE Return(t, c, Append(bt[t].res, entry))
    /\ UNCHANGED <<listStore, secretStore>>
    /\ UNCHANGED <<stealthVars, swapVars, sweepVars, quoteVars, deriveVars, screenVars>>

\* updateBurnerLabel(burnerId, newLabel)
updateBurnerLabel_call(t) ==
    /\ BFree(t)
    /\ \E id \in BurnerIds, newLabel \in Labels :
          bt' = [bt EXCEPT ![t] = [IdleBurner EXCEPT !.pc = "u_list", !.op = "updateBurnerLabel",
                                                     !.id = id, !.label = newLabel]]
    /\ UNCHANGED <<listStore, secretStore, destroyedIds, serialList>>
    /\ UNCHANGED <<stealthVars, swapVars, sweepVars, quoteVars, deriveVars, screenVars>>

HasId(burners, id) == \E i \in 1..Len(burners) : burners[i].id = id

\* burners.findIndex((b) => b.id === burnerId)
FindIndex(burners, id) ==
    IF HasId(burners, id)
    THEN CHOOSE i \in 1..Len(burners) :
            burners[i].id = id /\ \A j \in 1..(i - 1) : burners[j].id # id
    ELSE 0

updateBurnerLabel_listBurners(t) ==
    /\ bt[t].pc = "u_list"
    /\ \/ IF HasId(StoredList, bt[t].id)
          THEN Goto(t, [bt[t] EXCEPT !.burners = StoredList], "list", "u_save")
          ELSE Return(t, [bt[t] EXCEPT !.tried = @ \cup {"list"}], NoValue)
       \/ Throw(t, "list")
    /\ UNCHANGED <<listStore, secretStore>>
    /\ UNCHANGED <<stealthVars, swapVars, sweepVars, quoteVars, deriveVars, screenVars>>

\* burners[index].label = newLabel; await saveBurnerList(burners)
updateBurnerLabel_saveBurnerList(t) ==
    /\ bt[t].pc = "u_save"
    /\ LET index == FindIndex(bt[t].burners, bt[t].id) IN
       \/ /\ listStore' = JsonStringify([bt[t].burners EXCEPT ![index].label = bt[t].label])
          /\ Return(t, [bt[t] EXCEPT !.tried = @ \cup {"save"}], NoValue)
       \/ /\ Throw(t, "save")
          /\ UNCHANGED listStore
    /\ UNCHANGED secretStore
    /\ UNCHANGED <<stealthVars, swapVars, sweepVars, quoteVars, deriveVars, screenVars>>

\* sendFromBurner(burnerId, recipient, amount); amount is in SOL.
SendAmounts == {-1, 0, 1}

\* Math.floor(amount * LAMPORTS_PER_SOL), for the whole amounts of SendAmounts.
ToLamports(amount) == amount * LamportsPerSol

sendFromBurner_call(t) ==
    /\ BFree(t)
    /\ \E id \in BurnerIds, recipient \in {MainAddress, MalformedAddress}, amount \in SendAmounts :
          bt' = [bt EXCEPT ![t] = [IdleBurner EXCEPT !.pc = "s_load", !.op = "sendFromBurner",
                                      !.id = id, !.to = recipient, !.amount = amount]]
    /\ UNCHANGED <<listStore, secretStore, destroyedIds, serialList>>
    /\ UNCHANGED <<stealthVars, swapVars, sweepVars, quoteVars, deriveVars, screenVars>>

\* const keypair = await getBurnerKeypair(burnerId); if (!keypair) throw;
\* const recipientPubkey = new PublicKey(recipient)
sendFromBurner_load(t) ==
    /\ bt[t].pc = "s_load"
    /\ \/ IF LoadKeypair(bt[t].id) = NoKeypair
          THEN EndCall(t, [bt[t] EXCEPT !.out = "threw", !.fail = "not found",
                                        !.tried = @ \cup {"load"}])
          ELSE IF ~IsValidPublicKey(bt[t].to)
          THEN EndCall(t, [bt[t] EXCEPT !.out = "threw", !.fail = "recipient",
                                        !.tried = @ \cup {"load"}])
          ELSE Goto(t, [bt[t] EXCEPT !.keypair = LoadKeypair(bt[t].id)], "load", "s_blockhash")
       \/ Throw(t, "load")
    /\ UNCHANGED <<listStore, secretStore>>
    /\ UNCHANGED <<stealthVars, swapVars, sweepVars, quoteVars, deriveVars, screenVars>>

\* const { blockhash } = await connection.getLatestBlockhash()
sendFromBurner_getLatestBlockhash(t) ==
    /\ bt[t].pc = "s_blockhash"
    /\ \/ Goto(t, bt[t], "blockhash", "s_send")
       \/ Throw(t, "blockhash")
    /\ UNCHANGED <<listStore, secretStore>>
    /\ UNCHANGED <<stealthVars, swapVars, sweepVars, quoteVars, deriveVars, screenVars>>

\* transaction.sign(keypair); signature = await connection.sendRawTransaction(...)
sendFromBurner_sendRawTransaction(t) ==
    /\ bt[t].pc = "s_send"
    /\ \/ Goto(t, [bt[t] EXCEPT !.sig = Signature(bt[t].keypair, bt[t].to,
                                                   ToLamports(bt[t].amount))],
               "send", "s_confirm")
       \/ Throw(t, "send")
    /\ UNCHANGED <<listStore, secretStore>>
    /\ UNCHANGED <<stealthVars, swapVars, sweepVars, quoteVars, deriveVars, screenVars>>

\* await connection.confirmTransaction(signature, 'confirmed'); return signature
sendFromBurner_confirmTransaction(t) ==
    /\ bt[t].pc = "s_confirm"
    /\ \/ Return(t, [bt[t] EXCEPT !.tried = @ \cup {"confirm"}], bt[t].sig)
       \/ Throw(t, "confirm")
    /\ UNCHANGED <<listStore, secretStore>>
    /\ UNCHANGED <<stealthVars, swapVars, sweepVars, quoteVars, deriveVars, screenVars>>

\* destroyBurner(burnerId, sweepTo?)
destroyBurner_call(t) ==
    /\ BFree(t)
    /\ \E id \in BurnerIds, sweepTo \in {NoValue, MainAddress, MalformedAddress} :
          bt' = [bt EXCEPT ![t] = [IdleBurner EXCEPT !.pc = "d_load", !.op = "destroyBurner",
                                                     !.id = id, !.to = sweepTo]]
    /\ UNCHANGED <<listStore, secretStore, destroyedIds, serialList>>
    /\ UNCHANGED <<stealthVars, swapVars, sweepVars, quoteVars, deriveVars, screenVars>>

\* const keypair = await getBurnerKeypair(burnerId); if (keypair && sweepTo) ...
destroyBurner_load(t) ==
    /\ bt[t].pc = "d_load"
    /\ \/ LET keypair == LoadKeypair(bt[t].id) IN
          Goto(t, [bt[t] EXCEPT !.keypair = keypair], "load",
               IF keypair # NoKeypair /\ bt[t].to # NoValue THEN "d_balance" ELSE "d_delete")
       \/ Throw(t, "load")
    /\ UNCHANGED <<listStore, secretStore>>
    /\ UNCHANGED <<stealthVars, swapVars, sweepVars, quoteVars, deriveVars, screenVars>>

\* const balance = await connection.getBalance(keypair.publicKey), outside the try;
\* if (sendAmount > 0) the sweep is attempted
destroyBurner_getBalance(t) ==
    /\ bt[t].pc = "d_balance"
    /\ \/ \E balance \in Balances :
             Goto(t, [bt[t] EXCEPT !.balance = balance, !.amount = SweepAmount(balance)],
                  "balance",
                  IF SweepAmount(balance) > 0 THEN "d_blockhash" ELSE "d_delete")
       \/ Throw(t, "balance")
    /\ UNCHANGED <<listStore, secretStore>>
    /\ UNCHANGED <<stealthVars, swapVars, sweepVars, quoteVars, deriveVars, screenVars>>

\* The catch of the sweep's try block: the error is logged and the call goes on.
Caught(t, step) ==
    Goto(t, [bt[t] EXCEPT !.caught = step], step, "d_delete")

\* try { getLatestBlockhash(); new PublicKey(sweepTo); transaction.sign(keypair) ...
destroyBurner_getLatestBlockhash(t) ==
    /\ bt[t].pc = "d_blockhash"
    /\ \/ IF IsValidPublicKey(bt[t].to)
          THEN Goto(t, bt[t], "blockhash", "d_send")
          ELSE Caught(t, "destination")
       \/ Caught(t, "blockhash")
    /\ UNCHANGED <<listStore, secretStore>>
    /\ UNCHANGED <<stealthVars, swapVars, sweepVars, quoteVars, deriveVars, screenVars>>

\* sweepSignature = await connection.sendRawTransaction(transaction.serialize())
destroyBurner_sendRawTransaction(t) ==
    /\ bt[t].pc = "d_send"
    /\ \/ Goto(t, [bt[t] EXCEPT !.sig = Signature(bt[t].keypair, bt[t].to, bt[t].amount)],
               "send", "d_confirm")
       \/ Caught(t, "send")
    /\ UNCHANGED <<listStore, secretStore>>
    /\ UNCHANGED <<stealthVars, swapVars, sweepVars, quoteVars, deriveVars, screenVars>>

\* await connection.confirmTransaction(sweepSignature, 'confirmed') } catch { log }
destroyBurner_confirmTransaction(t) ==
    /\ bt[t].pc = "d_confirm"
    /\ \/ Goto(t, bt[t], "confirm", "d_delete")
       \/ Caught(t, "confirm")
    /\ UNCHANGED <<listStore, secretStore>>
    /\ UNCHANGED <<stealthVars, swapVars, sweepVars, quoteVars, deriveVars, screenVars>>

\* await SecureStore.deleteItemAsync(BURNER_KEY_PREFIX + burnerId)
destroyBurner_deleteSecret(t) ==
    /\ bt[t].pc = "d_delete"
    /\ \/ /\ secretStore' = [secretStore EXCEPT ![bt[t].id] = NullItem]
          /\ Goto(t, bt[t], "delete", "d_list")
       \/ /\ Throw(t, "delete")
          /\ UNCHANGED secretStore
    /\ UNCHANGED listStore
    /\ UNCHANGED <<stealthVars, swapVars, sweepVars, quoteVars, deriveVars, screenVars>>

\* const burners = await listBurners()
destroyBurner_listBurners(t) ==
    /\ bt[t].pc = "d_list"
    /\ \/ Goto(t, [bt[t] EXCEPT !.burners = StoredList], "list", "d_save")
       \/ Throw(t, "list")
    /\ UNCHANGED <<listStore, secretStore>>
    /\ UNCHANGED <<stealthVars, swapVars, sweepVars, quoteVars, deriveVars, screenVars>>

\* The filter that drops nothing.
WithoutNothing(burners, id) == burners

\* A filter that drops the first record, whatever its id.
WithoutFirst(burners, id) == IF burners = << >> THEN << >> ELSE Tail(burners)

\* burners.filter((b) => b.id !== burnerId)
Without(burners, id) == SelectSeq(burners, LAMBDA b : b.id # id)

\* await saveBurnerList(updatedBurners); return sweepSignature
destroyBurner_saveBurnerList(t) ==
    /\ bt[t].pc = "d_save"
    /\ \/ /\ listStore' = JsonStringify(Without(bt[t].burners, bt[t].id))
          /\ Return(t, [bt[t] EXCEPT !.tried = @ \cup {"save"}], bt[t].sig)
       \/ /\ Throw(t, "save")
          /\ UNCHANGED listStore
    /\ UNCHANGED secretStore
    /\ UNCHANGED <<stealthVars, swapVars, sweepVars, quoteVars, deriveVars, screenVars>>

BurnerStep(t) ==
    \/ createBurner_call(t)
    \/ createBurner_generateBurnerId(t)
    \/ createBurner_storeSecret(t)
    \/ createBurner_listBurners(t)
    \/ createBurner_saveBurnerList(t)
    \/ getBurnerKeypair_call(t)
    \/ getBurnerKeypair_load(t)
    \/ listBurners_call(t)
    \/ listBurners_read(t)
    \/ listBurnersWithBalances_call(t)
    \/ listBurnersWithBalances_listBurners(t)
    \/ listBurnersWithBalances_getBurnerBalance(t)
    \/ updateBurnerLabel_call(t)
    \/ updateBurnerLabel_listBurners(t)
    \/ updateBurnerLabel_saveBurnerList(t)
    \/ sendFromBurner_call(t)
    \/ sendFromBurner_load(t)
    \/ sendFromBurner_getLatestBlockhash(t)
    \/ sendFromBurner_sendRawTransaction(t)
    \/ sendFromBurner_confirmTransaction(t)
    \/ destroyBurner_call(t)
    \/ destroyBurner_load(t)
    \/ destroyBurner_getBalance(t)
    \/ destroyBurner_getLatestBlockhash(t)
    \/ destroyBurner_sendRawTransaction(t)
    \/ destroyBurner_confirmTransaction(t)
    \/ destroyBurner_deleteSecret(t)
    \/ destroyBurner_listBurners(t)
    \/ destroyBurner_saveBurnerList(t)

\* ---------------------------------------------------- gasless swap composer

\* COMPUTE_BUDGET_PROGRAM_ID of src/src/constants/index.ts, and the other programs
\* a route may address.
COMPUTE_BUDGET_PROGRAM_ID == "ComputeBudget111111111111111111111111111111"

ProgramIds == {COMPUTE_BUDGET_PROGRAM_ID, "JUP", "Token", "ATA"}

\* The router's response lists at most this many setup instructions and lookup tables.
MaxSetup == 2

MaxTables == 2

TableAddresses == {"T1", "T2"}

\* A JupiterInstruction: {programId, accounts, data (base64)}.
JupiterInstructions ==
    [programId : ProgramIds,
     accounts : {<<[pubkey |-> "acct", isSigner |-> FALSE, isWritable |-> TRUE]>>},
     data : {"AQ=="}]

\* An absent cleanupInstruction.
NoInstruction == [programId |-> NoValue, accounts |-> << >>, data |-> NoValue]

SeqsUpTo(S, n) == UNION {[1..k -> S] : k \in 0..n}

\* The SwapInstructionsResponse bodies the router may answer with.
RouterResponses ==
    [setupInstructions : SeqsUpTo(JupiterInstructions, MaxSetup),
     swapInstruction : JupiterInstructions,
     cleanupInstruction : JupiterInstructions \cup {NoInstruction},
     addressLookupTableAddresses : SeqsUpTo(TableAddresses, MaxTables)]

\* new PublicKey(text); a.equals(b) is equality of the keys made.
PublicKeyOf(text) == <<"pubkey", text>>

deserializeInstruction(instruction) ==
    [programId |-> PublicKeyOf(instruction.programId),
     keys |-> [i \in 1..Len(instruction.accounts) |->
                  [pubkey |-> PublicKeyOf(instruction.accounts[i].pubkey),
                   isSigner |-> instruction.accounts[i].isSigner,
                   isWritable |-> instruction.accounts[i].isWritable]],
     data |-> <<"buffer", instruction.data>>]

\* The filter with the program id compared as a string: no PublicKey equals it.
filterComparingStrings(instructions) ==
    SelectSeq(instructions, LAMBDA instruction :
        ~(instruction.programId = <<"string", COMPUTE_BUDGET_PROGRAM_ID>>))

filterComputeBudgetInstructions(instructions) ==
    LET computeBudgetProgramId == PublicKeyOf(COMPUTE_BUDGET_PROGRAM_ID) IN
    SelectSeq(instructions, LAMBDA instruction :
        ~(instruction.programId = computeBudgetProgramId))

\* The list with the swap instruction pushed before the setup instructions.
AllInstructionsSwapFirst(response) ==
    <<deserializeInstruction(response.swapInstruction)>>
    \o [i \in 1..Len(response.setupInstructions) |->
          deserializeInstruction(response.setupInstructions[i])]
    \o (IF response.cleanupInstruction = NoInstruction THEN << >>
        ELSE <<deserializeInstruction(response.cleanupInstruction)>>)

\* prepareSwap step 3: setup instructions, the swap instruction, the cleanup if any.
AllInstructions(response) ==
    [i \in 1..Len(response.setupInstructions) |->
        deserializeInstruction(response.setupInstructions[i])]
    \o <<deserializeInstruction(response.swapInstruction)>>
    \o (IF response.cleanupInstruction = NoInstruction THEN << >>
        ELSE <<deserializeInstruction(response.cleanupInstruction)>>)

\* The AddressLookupTableAccount the ledger holds at `address`.
LookupTableAccount(address) == <<"alt", address>>

IdleSwap ==
    [pc |-> "idle", quote |-> NoValue, all |-> << >>, instructions |-> << >>,
     addresses |-> << >>, tables |-> << >>, out |-> "none", fail |-> "none"]

SwapInit ==
    /\ router \in RouterResponses
    /\ net = "up"
    /\ sw = IdleSwap

\* The swap composer at rest, for the specifications of the other two managers.
SwapAtRest ==
    /\ net = "up"
    /\ router = [setupInstructions |-> << >>,
                 swapInstruction |-> [programId |-> "JUP", accounts |-> << >>, data |-> "AQ=="],
                 cleanupInstruction |-> NoInstruction,
                 addressLookupTableAddresses |-> << >>]
    /\ sw = IdleSwap

\* A composer that clears the stealth counter as it goes.
SwapFrameClearingCounter ==
    /\ indexStore' = NoValue
    /\ UNCHANGED <<router, net, seedStore, st, issued, everOut, sinceReset, reused, genCount>>
    /\ UNCHANGED <<burnerVars, sweepVars, quoteVars, deriveVars, screenVars>>

\* jupiter.ts makes no SecureStore call: a step of the composer changes `sw` alone.
SwapFrame == UNCHANGED <<router, net, stealthVars, burnerVars, sweepVars, quoteVars, deriveVars, screenVars>>

SwapThrow(step) == sw' = [sw EXCEPT !.pc = "done", !.out = "threw", !.fail = step]

\* prepareSwap(inputMint, outputMint, amountInSmallestUnit, userPublicKey, slippageBps)
prepareSwap_call ==
    /\ sw.pc \in {"idle", "done"}
    /\ sw' = [IdleSwap EXCEPT !.pc = "quote"]
    /\ SwapFrame

\* const quote = await getQuote(...): throws when the fetch fails or is not ok.
prepareSwap_getQuote ==
    /\ sw.pc = "quote"
    /\ net = "up"
    /\ \/ sw' = [sw EXCEPT !.pc = "instructions", !.quote = "quote"]
       \/ SwapThrow("quote")
    /\ SwapFrame

\* const swapInstructions = await getSwapInstructions(quote, userPublicKey), then
\* steps 3 and 4: deserialize in order and filter the compute budget instructions.
prepareSwap_getSwapInstructions ==
    /\ sw.pc = "instructions"
    /\ net = "up"
    /\ \/ sw' = [sw EXCEPT !.pc = "tables",
                           !.all = AllInstructions(router),
                           !.instructions = filterComputeBudgetInstructions(AllInstructions(router)),
                           !.addresses = router.addressLookupTableAddresses]
       \/ SwapThrow("instructions")
    /\ SwapFrame

\* fetchAddressLookupTables: one pass of its loop, await connection.getAddressLookupTable;
\* a null response.value is skipped.
fetchAddressLookupTables_next ==
    /\ sw.pc = "tables"
    /\ sw.addresses # << >>
    /\ net = "up"
    /\ \/ sw' = [sw EXCEPT !.addresses = Tail(@),
                           !.tables = Append(@, LookupTableAccount(Head(sw.addresses)))]
       \/ sw' = [sw EXCEPT !.addresses = Tail(@)]
       \/ SwapThrow("tables")
    /\ SwapFrame

\* return { quote, instructions: filteredInstructions, addressLookupTableAccounts }
prepareSwap_return ==
    /\ sw.pc = "tables"
    /\ sw.addresses = << >>
    /\ sw' = [sw EXCEPT !.pc = "done", !.out = "returned"]
    /\ SwapFrame

\* The router and the ledger stop answering: a request already sent, or sent from
\* now on, gets no response and no error.  fetch is called without a signal and
\* connection.getAddressLookupTable without a timeout, so nothing ends the wait.
Network_goesSilent ==
    /\ net = "up"
    /\ net' = "silent"
    /\ UNCHANGED <<router, sw, stealthVars, burnerVars, sweepVars, quoteVars, deriveVars, screenVars>>

SwapNext ==
    \/ prepareSwap_call
    \/ prepareSwap_getQuote
    \/ prepareSwap_getSwapInstructions
    \/ fetchAddressLookupTables_next
    \/ prepareSwap_return

\* ------------------------------------------------------- stealth sweep (screen)

\* At most this many funded addresses are swept by one handleSweepAll.
MaxFunded == 2

\* const rentExempt = 890880; const fee = 5000
RentExempt == 890880

StealthSweepFee == 5000

\* The balances (lamports) the ledger may report for a stealth address.
SweepBalances == {0, 890880, 895880, 895881, 2000000}

\* The amount with the rent reserve forgotten.
StealthSendAmountNoReserve(balance) == balance - StealthSweepFee

\* const sendAmount = balance - rentExempt - fee
StealthSendAmount(balance) == balance - RentExempt - StealthSweepFee

\* The subsequences of 0..n-1 in increasing order, as sequences.
RECURSIVE IncreasingSeqs(_)
IncreasingSeqs(n) ==
    IF n = 0 THEN {<< >>}
    ELSE IncreasingSeqs(n - 1) \cup {Append(q, n - 1) : q \in IncreasingSeqs(n - 1)}

\* addresses.filter((a) => a.balance > 0) over the addresses the screen has loaded
\* from master seed `masterSeed`: any of them may have shown funds.
FundedLists(masterSeed) ==
    {[k \in 1..Len(q) |-> StealthRecord(masterSeed, q[k])] : q \in IncreasingSeqs(MaxFunded)}
        \ {<< >>}

IdleSweep ==
    [pc |-> "idle", funded |-> << >>, i |-> 0, keypair |-> NullKeypair, balance |-> 0,
     amount |-> 0, log |-> << >>, alert |-> "none"]

\* The screen sweeps with the master seed in place (initialize has run) and MaxFunded
\* addresses generated.
SweepInit ==
    /\ seedStore \in Seeds
    /\ indexStore = IndexToString(MaxFunded)
    /\ st = [t \in Tasks |-> IdleTask]
    /\ issued = {}
    /\ everOut = {}
    /\ sinceReset = {}
    /\ reused = FALSE
    /\ genCount = 0
    /\ swp = IdleSweep

SweepAtRest == swp = IdleSweep

SweepFrame == UNCHANGED <<stealthVars, burnerVars, swapVars, quoteVars, deriveVars, screenVars>>

\* One entry of the console log of the sweep, per address gone through.
SweepEntry(outcome) ==
    [index |-> swp.funded[swp.i].index, balance |-> swp.balance, amount |-> swp.amount,
     outcome |-> outcome]

\* `continue`, or the end of the loop body: on to the next address, or out of the loop
\* to Alert 'Success' and await loadAddresses().
SweepContinue(outcome) ==
    swp' = [swp EXCEPT !.log = Append(@, SweepEntry(outcome)),
                       !.i = @ + 1,
                       !.pc = IF swp.i < Len(swp.funded) THEN "w_key" ELSE "w_reload",
                       !.alert = IF swp.i < Len(swp.funded) THEN @ ELSE "Success"]

\* An awaited call rejects: the catch around the whole loop alerts 'Sweep Failed'.
SweepFailed(outcome) ==
    swp' = [swp EXCEPT !.log = Append(@, SweepEntry(outcome)),
                       !.pc = "done", !.alert = "Sweep Failed"]

\* handleSweepAll, confirmed with 'Sweep': smartWalletPubkey is set and at least one
\* loaded address shows a balance.
handleSweepAll_press ==
    /\ swp.pc \in {"idle", "done"}
    /\ \E masterSeed \in Seeds : \E funded \in FundedLists(masterSeed) :
          swp' = [IdleSweep EXCEPT !.pc = "w_key", !.funded = funded, !.i = 1]
    /\ SweepFrame

\* const keypair = await getStealthKeypair(addr.address, addr.index); if (!keypair) continue
handleSweepAll_getStealthKeypair ==
    /\ swp.pc = "w_key"
    /\ LET addr == swp.funded[swp.i]
           keypair == CheckedKeypair(seedStore, addr.address, addr.index) IN
       IF keypair = NullKeypair
       THEN SweepContinue("no keypair")
       ELSE swp' = [swp EXCEPT !.pc = "w_balance", !.keypair = keypair,
                               !.balance = 0, !.amount = 0]
    /\ SweepFrame

\* const balance = await connection.getBalance(keypair.publicKey);
\* if (sendAmount <= 0) continue
handleSweepAll_getBalance ==
    /\ swp.pc = "w_balance"
    /\ \/ \E balance \in SweepBalances :
             LET sendAmount == StealthSendAmount(balance) IN
             IF sendAmount <= 0
             THEN swp' = [swp EXCEPT !.log = Append(@, [SweepEntry("skipped") EXCEPT
                                                          !.balance = balance,
                                                          !.amount = sendAmount]),
                                     !.i = @ + 1,
                                     !.pc = IF swp.i < Len(swp.funded) THEN "w_key"
                                            ELSE "w_reload",
                                     !.alert = IF swp.i < Len(swp.funded) THEN @
                                               ELSE "Success"]
             ELSE swp' = [swp EXCEPT !.pc = "w_blockhash", !.balance = balance,
                                     !.amount = sendAmount]
       \/ SweepFailed("balance failed")
    /\ SweepFrame

\* const { blockhash } = await connection.getLatestBlockhash(); the transfer of
\* sendAmount lamports is built and signed by the stealth keypair
handleSweepAll_getLatestBlockhash ==
    /\ swp.pc = "w_blockhash"
    /\ \/ swp' = [swp EXCEPT !.pc = "w_send"]
       \/ SweepFailed("blockhash failed")
    /\ SweepFrame

\* const signature = await connection.sendRawTransaction(transaction.serialize())
handleSweepAll_sendRawTransaction ==
    /\ swp.pc = "w_send"
    /\ \/ swp' = [swp EXCEPT !.pc = "w_confirm"]
       \/ SweepFailed("send failed")
    /\ SweepFrame

\* await connection.confirmTransaction(signature, 'confirmed')
handleSweepAll_confirmTransaction ==
    /\ swp.pc = "w_confirm"
    /\ \/ SweepContinue("swept")
       \/ SweepFailed("confirm failed")
    /\ SweepFrame

\* await loadAddresses(): the balances are refreshed; its own failures are swallowed.
handleSweepAll_loadAddresses ==
    /\ swp.pc = "w_reload"
    /\ swp' = [swp EXCEPT !.pc = "done"]
    /\ SweepFrame

SweepNext ==
    \/ handleSweepAll_press
    \/ handleSweepAll_getStealthKeypair
    \/ handleSweepAll_getBalance
    \/ handleSweepAll_getLatestBlockhash
    \/ handleSweepAll_sendRawTransaction
    \/ handleSweepAll_confirmTransaction
    \/ handleSweepAll_loadAddresses

\* ------------------------------------------------------------ quote validity

\* The clock runs from 0 to MaxClock; a quote may be given a maximum age up to MaxAge.
MaxClock == 4

MaxAge == 2

\* The maxAgeMs a caller may pass: none below 0 makes sense, but the code takes any.
MaxAges == -1..MaxAge

\* The comparison with the subtraction turned round.
isQuoteValidReversed(quoteTimestamp, maxAgeMs) == quoteTimestamp - clock < maxAgeMs

\* return Date.now() - quoteTimestamp < maxAgeMs
isQuoteValid(quoteTimestamp, maxAgeMs) == clock - quoteTimestamp < maxAgeMs

\* A quote is stamped with Date.now() when it is received.
QuoteInit ==
    /\ clock \in 0..MaxClock
    /\ qv = [pc |-> "quoted", quoteTimestamp |-> clock, maxAgeMs |-> 0, at |-> clock,
             res |-> FALSE]

QuoteAtRest ==
    /\ clock = 0
    /\ qv = [pc |-> "quoted", quoteTimestamp |-> 0, maxAgeMs |-> 0, at |-> 0, res |-> FALSE]

QuoteFrame == UNCHANGED <<stealthVars, burnerVars, swapVars, sweepVars, deriveVars, screenVars>>

\* Time passes.
ClockTick ==
    /\ clock < MaxClock
    /\ clock' = clock + 1
    /\ UNCHANGED qv
    /\ QuoteFrame

\* isQuoteValid(quoteTimestamp, maxAgeMs)
isQuoteValid_call ==
    /\ \E maxAgeMs \in MaxAges :
          qv' = [qv EXCEPT !.pc = "checked", !.maxAgeMs = maxAgeMs, !.at = clock,
                           !.res = isQuoteValid(qv.quoteTimestamp, maxAgeMs)]
    /\ UNCHANGED clock
    /\ QuoteFrame

QuoteNext == ClockTick \/ isQuoteValid_call

\* ------------------------------------------------------ derivation (pure)

\* Keypairs are derived for the indices 0..MaxDeriveIndex.
MaxDeriveIndex == 12

\* A keypair derived for an index, or none yet.
NotDerived == [index |-> -1, keypair |-> NullKeypair]

DeriveInit ==
    \E masterSeed \in Seeds :
        dv = [masterSeed |-> masterSeed, scanKeypair |-> NullKeypair,
              spendKeypair |-> NullKeypair, last |-> NotDerived, before |-> NotDerived]

DeriveAtRest ==
    dv = [masterSeed |-> "a1", scanKeypair |-> NullKeypair,
          spendKeypair |-> NullKeypair, last |-> NotDerived, before |-> NotDerived]

DeriveFrame == UNCHANGED <<stealthVars, burnerVars, swapVars, sweepVars, quoteVars, screenVars>>

\* deriveStealthKeypairs(masterSeed)
deriveStealthKeypairs_call ==
    /\ dv' = [dv EXCEPT !.scanKeypair = deriveStealthKeypairs(dv.masterSeed).scanKeypair,
                        !.spendKeypair = deriveStealthKeypairs(dv.masterSeed).spendKeypair]
    /\ DeriveFrame

\* deriveStealthKeypairForIndex(masterSeed, index); the two latest results are kept.
deriveStealthKeypairForIndex_call ==
    /\ \E index \in 0..MaxDeriveIndex :
          dv' = [dv EXCEPT !.last = [index |-> index,
                                     keypair |-> deriveStealthKeypairForIndex(dv.masterSeed, index)],
                           !.before = dv.last]
    /\ DeriveFrame

DeriveNext == deriveStealthKeypairs_call \/ deriveStealthKeypairForIndex_call

\* -------------------------------------------------------------- SwapScreen

\* The age, in ticks of the clock, beyond which a quote counts as stale: the 30000 ms
\* that isQuoteValid takes as its default maxAgeMs.
StaleAfter == 2

\* quote: a quote is on display; quoteAt: when the quote of the plan being built was
\* received; age: the age of that quote when the plan was handed over for signing.
IdleSwapScreen ==
    [pc |-> "idle", quote |-> FALSE, isSwapping |-> FALSE, quoteAt |-> -1, age |-> -1,
     out |-> "none"]

WalletAtRest ==
    [wallet |-> "none", lastWallet |-> "none", isFetching |-> FALSE, hasFetched |-> FALSE,
     isLoadingBalance |-> FALSE, solBalance |-> -1, usdcBalance |-> -1,
     balanceError |-> "none", runs |-> << >>]

ScreensAtRest ==
    /\ xs = IdleSwapScreen
    /\ ws = WalletAtRest

SwapScreenFrame ==
    UNCHANGED <<ws, clock, qv, stealthVars, burnerVars, swapVars, sweepVars, deriveVars>>

\* Time passes while the screen waits.
SwapScreen_ClockTick ==
    /\ xs.pc # "idle"
    /\ ClockTick
    /\ UNCHANGED xs

\* fetchQuote: setQuote(null); await prepareSwap(...)
fetchQuote_call ==
    /\ xs.pc = "idle"
    /\ xs' = [xs EXCEPT !.pc = "q_prepare", !.quote = FALSE, !.out = "none"]
    /\ SwapScreenFrame

\* fetchQuote: setQuote(result.quote), or the catch when prepareSwap throws
fetchQuote_prepareSwap ==
    /\ xs.pc = "q_prepare"
    /\ \/ xs' = [xs EXCEPT !.pc = "idle", !.quote = TRUE]
       \/ xs' = [xs EXCEPT !.pc = "idle", !.out = "quote failed"]
    /\ SwapScreenFrame

\* executeSwap: if (!quote || !smartWalletPubkey) return; setIsSwapping(true)
executeSwap_call ==
    /\ xs.pc = "idle"
    /\ xs.quote
    /\ xs' = [xs EXCEPT !.pc = "x_quote", !.isSwapping = TRUE, !.quoteAt = -1, !.age = -1,
                        !.out = "none"]
    /\ SwapScreenFrame

\* The catch and finally of executeSwap.
SwapFailed == xs' = [xs EXCEPT !.pc = "idle", !.isSwapping = FALSE, !.out = "swap failed"]

\* executeSwap, inside prepareSwap: const quote = await getQuote(...)
executeSwap_getQuote ==
    /\ xs.pc = "x_quote"
    /\ \/ xs' = [xs EXCEPT !.pc = "x_instructions", !.quoteAt = clock]
       \/ SwapFailed
    /\ SwapScreenFrame

\* executeSwap, inside prepareSwap: await getSwapInstructions(quote, userPublicKey)
executeSwap_getSwapInstructions ==
    /\ xs.pc = "x_instructions"
    /\ \/ xs' = [xs EXCEPT !.pc = "x_tables"]
       \/ SwapFailed
    /\ SwapScreenFrame

\* executeSwap: prepareSwap returns once the lookup tables are fetched, and the plan
\* goes straight to signAndSendTransaction({ instructions, ... }).
executeSwap_signAndSendTransaction ==
    /\ xs.pc = "x_tables"
    /\ \/ xs' = [xs EXCEPT !.pc = "x_sign", !.age = clock - xs.quoteAt]
       \/ SwapFailed
    /\ SwapScreenFrame

\* signAndSendTransaction resolves: setAmount(''); setQuote(null); or it rejects.
executeSwap_return ==
    /\ xs.pc = "x_sign"
    /\ \/ xs' = [xs EXCEPT !.pc = "idle", !.isSwapping = FALSE, !.quote = FALSE,
                           !.out = "signed"]
       \/ SwapFailed
    /\ SwapScreenFrame

SwapScreenNext ==
    \/ SwapScreen_ClockTick
    \/ fetchQuote_call
    \/ fetchQuote_prepareSwap
    \/ executeSwap_call
    \/ executeSwap_getQuote
    \/ executeSwap_getSwapInstructions
    \/ executeSwap_signAndSendTransaction
    \/ executeSwap_return

\* ------------------------------------------------------------ WalletScreen

\* The wallets useWallet may report; "none" stands for a null smartWalletPubkey.
Wallets == {"w1", "w2"}

\* doFetchBalances runs can be told apart up to this many at a time.
MaxRuns == 2

\* What the ledger reports for the SOL balance, in lamports, and for the USDC
\* account, in millionths; -1 stands for the null a balance state starts with.
SolReports == {0, LamportsPerSol}

UsdcReports == {0, 1000000}

\* The guard that lets every trigger through.
FetchInFlightIgnored(isFetching) == FALSE

\* if (isFetchingRef.current) return
FetchInFlight(isFetching) == isFetching

WalletScreenFrame ==
    UNCHANGED <<xs, stealthVars, burnerVars, swapVars, sweepVars, quoteVars, deriveVars>>

\* doFetchBalances(walletPubkey) up to its first await, on the screen state w.
doFetchBalances(w) ==
    IF FetchInFlight(w.isFetching) \/ Len(w.runs) >= MaxRuns THEN w
    ELSE [w EXCEPT !.isFetching = TRUE, !.isLoadingBalance = TRUE, !.balanceError = "none",
                   !.runs = Append(@, "sol")]

\* The run at position r goes on to its next await.
RunGoesOn(r, pc) == [ws EXCEPT !.runs[r] = pc]

\* The run at position r ends: finally { setIsLoadingBalance(false); isFetchingRef.current = false }
RunEnds(w, r) ==
    [w EXCEPT !.isLoadingBalance = FALSE, !.isFetching = FALSE,
              !.runs = SubSeq(@, 1, r - 1) \o SubSeq(@, r + 1, Len(@))]

\* useWallet reports another wallet, or none, and the effect on [smartWalletPubkey] runs:
\* if the wallet differs from lastWalletRef, hasFetchedRef is cleared and a fetch asked for.
WalletScreen_walletChanges ==
    /\ \E wallet \in (Wallets \cup {"none"}) \ {ws.wallet} :
          ws' = IF wallet = "none" \/ ws.lastWallet = wallet
                THEN [ws EXCEPT !.wallet = wallet]
                ELSE doFetchBalances([ws EXCEPT !.wallet = wallet, !.lastWallet = wallet,
                                                !.hasFetched = FALSE])
    /\ WalletScreenFrame

\* handleRefresh: if (smartWalletPubkey && !isFetchingRef.current) doFetchBalances(...)
handleRefresh ==
    /\ ws' = IF ws.wallet # "none" /\ ~ws.isFetching THEN doFetchBalances(ws) ELSE ws
    /\ ws' # ws
    /\ WalletScreenFrame

\* The catch of doFetchBalances; a 429 is told apart by its message.
FetchFailed(r) ==
    \E message \in {"Rate limited - tap Refresh", "Failed to load balance"} :
        ws' = RunEnds([ws EXCEPT !.balanceError = message], r)

\* const solLamports = await connection.getBalance(walletPubkey); setSolBalance(...)
doFetchBalances_getBalance ==
    /\ \E r \in 1..Len(ws.runs) :
          /\ ws.runs[r] = "sol"
          /\ \/ \E solLamports \in SolReports :
                   ws' = [RunGoesOn(r, "ata") EXCEPT !.solBalance = solLamports]
             \/ FetchFailed(r)
    /\ WalletScreenFrame

\* const ata = await getAssociatedTokenAddress(usdcMint, walletPubkey); the inner catch
\* sets the USDC balance to 0 and the run ends with hasFetchedRef set.
doFetchBalances_getAssociatedTokenAddress ==
    /\ \E r \in 1..Len(ws.runs) :
          /\ ws.runs[r] = "ata"
          /\ \/ ws' = RunGoesOn(r, "usdc")
             \/ ws' = RunEnds([ws EXCEPT !.usdcBalance = 0, !.hasFetched = TRUE], r)
    /\ WalletScreenFrame

\* const tokenAccount = await getAccount(connection, ata); setUsdcBalance(...)
doFetchBalances_getAccount ==
    /\ \E r \in 1..Len(ws.runs) :
          /\ ws.runs[r] = "usdc"
          /\ \E amount \in UsdcReports :
                ws' = RunEnds([ws EXCEPT !.usdcBalance = amount, !.hasFetched = TRUE], r)
    /\ WalletScreenFrame

WalletScreenNext ==
    \/ WalletScreen_walletChanges
    \/ handleRefresh
    \/ doFetchBalances_getBalance
    \/ doFetchBalances_getAssociatedTokenAddress
    \/ doFetchBalances_getAccount

\* ---------------------------------------------------------- specifications

Init == StealthInit /\ BurnerInit /\ SwapAtRest /\ SweepAtRest /\ QuoteAtRest /\ DeriveAtRest /\ ScreensAtRest

\* One caller: every call runs to its end before the next one starts.
StealthSeqNext == StealthStep(1)

\* The steps of the calls that read or write the stealth counter and the seed.
StealthCounterStep(t) ==
    \/ generateStealthAddress_call(t)
    \/ getAllStealthAddresses_call(t)
    \/ resetStealthIndex_call(t)
    \/ getOrCreateMasterSeed_read(t)
    \/ getOrCreateMasterSeed_write(t)
    \/ StealthIndex_read(t)
    \/ generateStealthAddress_write(t)
    \/ generateStealthAddress_return(t)
    \/ getAllStealthAddresses_return(t)
    \/ resetStealthIndex_delete(t)

\* Two callers whose awaits interleave.
StealthNext == \E t \in Tasks : StealthCounterStep(t)

StealthSeqSpec == Init /\ [][StealthSeqNext]_vars

StealthSpec == Init /\ [][StealthNext]_vars

\* One caller of the burner wallet manager; every store and ledger call may fail.
BurnerSeqNext == BurnerStep(1)

BurnerSeqSpec == Init /\ [][BurnerSeqNext]_vars

\* The calls that write the burner list, from callers whose steps interleave; every
\* store round trip succeeds, destroyBurner is called without a sweepTo, and no call
\* is started on a list that has already lost the effect of a returned call.  Burners
\* are created with one label and one key, and relabelled with the other label.
ListCallsOnly(t) ==
    /\ bt'[t].out # "threw"
    /\ bt'[t].to = NoValue
    /\ BFree(t) => StoredList = serialList
    /\ bt'[t].op = "createBurner" =>
          /\ bt'[t].label = "a"
          /\ bt'[t].keypair \in {NoKeypair, KeypairFromSecretKey("k1")}
    /\ bt'[t].op = "updateBurnerLabel" => bt'[t].label = "b"

BurnerListStep(t) ==
    \/ createBurner_call(t) /\ ListCallsOnly(t)
    \/ createBurner_generateBurnerId(t) /\ ListCallsOnly(t)
    \/ createBurner_storeSecret(t) /\ ListCallsOnly(t)
    \/ createBurner_listBurners(t) /\ ListCallsOnly(t)
    \/ createBurner_saveBurnerList(t) /\ ListCallsOnly(t)
    \/ updateBurnerLabel_call(t) /\ ListCallsOnly(t)
    \/ updateBurnerLabel_listBurners(t) /\ ListCallsOnly(t)
    \/ updateBurnerLabel_saveBurnerList(t) /\ ListCallsOnly(t)
    \/ destroyBurner_call(t) /\ ListCallsOnly(t)
    \/ destroyBurner_load(t) /\ ListCallsOnly(t)
    \/ destroyBurner_deleteSecret(t) /\ ListCallsOnly(t)
    \/ destroyBurner_listBurners(t) /\ ListCallsOnly(t)
    \/ destroyBurner_saveBurnerList(t) /\ ListCallsOnly(t)

BurnerNext == \E t \in Tasks : BurnerListStep(t)

BurnerSpec == Init /\ [][BurnerNext]_vars

\* One caller at a time, with every createBurner and destroyBurner call completing:
\* none of them throws.  The other calls may fail.
CreateAndDestroyComplete(t) ==
    bt'[t].op \in {"createBurner", "destroyBurner"} => bt'[t].out # "threw"

BurnerCompleteNext ==
    \/ createBurner_call(1) /\ CreateAndDestroyComplete(1)
    \/ createBurner_generateBurnerId(1) /\ CreateAndDestroyComplete(1)
    \/ createBurner_storeSecret(1) /\ CreateAndDestroyComplete(1)
    \/ createBurner_listBurners(1) /\ CreateAndDestroyComplete(1)
    \/ createBurner_saveBurnerList(1) /\ CreateAndDestroyComplete(1)
    \/ getBurnerKeypair_call(1) /\ CreateAndDestroyComplete(1)
    \/ getBurnerKeypair_load(1) /\ CreateAndDestroyComplete(1)
    \/ listBurners_call(1) /\ CreateAndDestroyComplete(1)
    \/ listBurners_read(1) /\ CreateAndDestroyComplete(1)
    \/ listBurnersWithBalances_call(1) /\ CreateAndDestroyComplete(1)
    \/ listBurnersWithBalances_listBurners(1) /\ CreateAndDestroyComplete(1)
    \/ listBurnersWithBalances_getBurnerBalance(1) /\ CreateAndDestroyComplete(1)
    \/ updateBurnerLabel_call(1) /\ CreateAndDestroyComplete(1)
    \/ updateBurnerLabel_listBurners(1) /\ CreateAndDestroyComplete(1)
    \/ updateBurnerLabel_saveBurnerList(1) /\ CreateAndDestroyComplete(1)
    \/ sendFromBurner_call(1) /\ CreateAndDestroyComplete(1)
    \/ sendFromBurner_load(1) /\ CreateAndDestroyComplete(1)
    \/ sendFromBurner_getLatestBlockhash(1) /\ CreateAndDestroyComplete(1)
    \/ sendFromBurner_sendRawTransaction(1) /\ CreateAndDestroyComplete(1)
    \/ sendFromBurner_confirmTransaction(1) /\ CreateAndDestroyComplete(1)
    \/ destroyBurner_call(1) /\ CreateAndDestroyComplete(1)
    \/ destroyBurner_load(1) /\ CreateAndDestroyComplete(1)
    \/ destroyBurner_getBalance(1) /\ CreateAndDestroyComplete(1)
    \/ destroyBurner_getLatestBlockhash(1) /\ CreateAndDestroyComplete(1)
    \/ destroyBurner_sendRawTransaction(1) /\ CreateAndDestroyComplete(1)
    \/ destroyBurner_confirmTransaction(1) /\ CreateAndDestroyComplete(1)
    \/ destroyBurner_deleteSecret(1) /\ CreateAndDestroyComplete(1)
    \/ destroyBurner_listBurners(1) /\ CreateAndDestroyComplete(1)
    \/ destroyBurner_saveBurnerList(1) /\ CreateAndDestroyComplete(1)

BurnerCompleteSpec == Init /\ [][BurnerCompleteNext]_vars

\* One sweep at a time from the stealth screen, over every ledger answer.
SweepStart == SweepInit /\ BurnerInit /\ SwapAtRest /\ QuoteAtRest /\ DeriveAtRest /\ ScreensAtRest

SweepSpec == SweepStart /\ [][SweepNext]_vars

\* isQuoteValid called on a quote at any later instant, with any maximum age.
QuoteStart == StealthInit /\ BurnerInit /\ SwapAtRest /\ SweepAtRest /\ QuoteInit /\ DeriveAtRest /\ ScreensAtRest

QuoteSpec == QuoteStart /\ [][QuoteNext]_vars

\* One prepareSwap call at a time, over every response the router may give.
SwapStart == StealthInit /\ BurnerInit /\ SwapInit /\ SweepAtRest /\ QuoteAtRest /\ DeriveAtRest /\ ScreensAtRest

SwapSpec == SwapStart /\ [][SwapNext]_vars

\* The stealth calls of one caller, a second caller that asks for the meta address
\* once the master seed exists, and beside them one caller that creates a burner,
\* sends from it and destroys it.  The burner calls use one id, label and key, a valid
\* address, and store and ledger calls that succeed.
OneBurnerCompletes ==
    /\ bt'[1].id \in {NoValue, "id1"}
    /\ bt'[1].label = "a"
    /\ bt'[1].keypair \in {NoKeypair, KeypairFromSecretKey("k1")}
    /\ bt'[1].to \in {NoValue, MainAddress}
    /\ bt'[1].amount \in {0, 1, SweepAmount(5001)}
    /\ bt'[1].balance \in {0, 5001}
    /\ bt'[1].caught = "none"
    /\ bt'[1].out = "threw" => bt'[1].fail = "not found"

MetaNext ==
    \/ generateStealthAddress_call(1)
    \/ getAllStealthAddresses_call(1)
    \/ resetStealthIndex_call(1)
    \/ getOrCreateMasterSeed_read(1)
    \/ getOrCreateMasterSeed_write(1)
    \/ StealthIndex_read(1)
    \/ generateStealthAddress_write(1)
    \/ generateStealthAddress_return(1)
    \/ getAllStealthAddresses_return(1)
    \/ resetStealthIndex_delete(1)
    \/ getStealthMetaAddress_call(2) /\ seedStore # NoValue
    \/ getOrCreateMasterSeed_read(2)
    \/ getStealthMetaAddress_return(2)
    \/ createBurner_call(1) /\ OneBurnerCompletes
    \/ createBurner_generateBurnerId(1) /\ OneBurnerCompletes
    \/ createBurner_storeSecret(1) /\ OneBurnerCompletes
    \/ createBurner_listBurners(1) /\ OneBurnerCompletes
    \/ createBurner_saveBurnerList(1) /\ OneBurnerCompletes
    \/ sendFromBurner_call(1) /\ OneBurnerCompletes
    \/ sendFromBurner_load(1) /\ OneBurnerCompletes
    \/ sendFromBurner_getLatestBlockhash(1) /\ OneBurnerCompletes
    \/ sendFromBurner_sendRawTransaction(1) /\ OneBurnerCompletes
    \/ sendFromBurner_confirmTransaction(1) /\ OneBurnerCompletes
    \/ destroyBurner_call(1) /\ OneBurnerCompletes
    \/ destroyBurner_load(1) /\ OneBurnerCompletes
    \/ destroyBurner_getBalance(1) /\ OneBurnerCompletes
    \/ destroyBurner_getLatestBlockhash(1) /\ OneBurnerCompletes
    \/ destroyBurner_sendRawTransaction(1) /\ OneBurnerCompletes
    \/ destroyBurner_confirmTransaction(1) /\ OneBurnerCompletes
    \/ destroyBurner_deleteSecret(1) /\ OneBurnerCompletes
    \/ destroyBurner_listBurners(1) /\ OneBurnerCompletes
    \/ destroyBurner_saveBurnerList(1) /\ OneBurnerCompletes

MetaSpec == Init /\ [][MetaNext]_vars

SwapScreenSpec == Init /\ [][SwapScreenNext]_vars

WalletScreenSpec == Init /\ [][WalletScreenNext]_vars

\* The derivation functions applied to one master seed and every index.
DeriveStart ==
    /\ StealthInit /\ BurnerInit /\ SwapAtRest /\ SweepAtRest /\ QuoteAtRest /\ DeriveInit
    /\ ScreensAtRest

DeriveSpec == DeriveStart /\ [][DeriveNext]_vars

\* prepareSwap on routes with lookup tables, on a network that may fall silent; every
\* step that can be taken is taken in the end.
SwapLiveStart ==
    /\ SwapStart
    /\ router.setupInstructions = << >>
    /\ router.swapInstruction.programId = "JUP"
    /\ router.cleanupInstruction = NoInstruction

SwapLiveNext == SwapNext \/ Network_goesSilent

SwapLiveSpec ==
    /\ SwapLiveStart
    /\ [][SwapLiveNext]_vars
    /\ WF_vars(prepareSwap_getQuote)
    /\ WF_vars(prepareSwap_getSwapInstructions)
    /\ WF_vars(fetchAddressLookupTables_next)
    /\ WF_vars(prepareSwap_return)

\* prepareSwap beside the calls that fill the secure store: generateStealthAddress and
\* createBurner run by one caller each, their awaits interleaving with the composer's.
SwapStoreNext ==
    \/ SwapNext
    \/ Network_goesSilent
    \/ generateStealthAddress_call(1)
    \/ getOrCreateMasterSeed_read(1)
    \/ getOrCreateMasterSeed_write(1)
    \/ StealthIndex_read(1)
    \/ generateStealthAddress_write(1)
    \/ generateStealthAddress_return(1)
    \/ createBurner_call(1) /\ OneBurnerCompletes
    \/ createBurner_generateBurnerId(1) /\ OneBurnerCompletes
    \/ createBurner_storeSecret(1) /\ OneBurnerCompletes
    \/ createBurner_listBurners(1) /\ OneBurnerCompletes
    \/ createBurner_saveBurnerList(1) /\ OneBurnerCompletes

SwapStoreSpec == SwapLiveStart /\ [][SwapStoreNext]_vars

\* ------------------------------------------------------------------ claims

\* C1: two invocations of generateStealthAddress whose steps interleave never
\* return the same index.
C1_InterleavedCallsGetDistinctIndices ==
    \A t, u \in Tasks :
        ( /\ t # u
          /\ st[t].pc = "done" /\ st[t].op = "generate"
          /\ st[u].pc = "done" /\ st[u].op = "generate"
          /\ u \in st[t].ov /\ t \in st[u].ov )
        => st[t].res.index # st[u].res.index

ResetDeletes == \E t \in Tasks : st[t].pc = "delete" /\ st'[t].pc = "done"

GenerateReturns(t) == st[t].pc = "return" /\ st[t].op = "generate" /\ st'[t].pc = "done"

\* C5 as stated: over any sequence of the exported stealth operations, resetStealthIndex
\* among them, no index is returned by two generateStealthAddress calls and the
\* persisted counter never decreases.
C5_IndexNeverReused ==
    [][ /\ IndexOf(indexStore') >= IndexOf(indexStore)
        /\ \A t \in Tasks : GenerateReturns(t) => st'[t].res.index \notin everOut ]_vars

\* C5 amended: the counter decreases only when resetStealthIndex deletes it, and no
\* index is returned twice between two resets.
C5_IndexNeverReusedBetweenResets ==
    [][ /\ ~ResetDeletes => IndexOf(indexStore') >= IndexOf(indexStore)
        /\ \A t \in Tasks : GenerateReturns(t) => st'[t].res.index \notin sinceReset ]_vars

C5_Witness == reused /\ Cardinality(sinceReset) >= 2

\* C6: every record generateStealthAddress or getAllStealthAddresses has returned
\* re-derives from the persisted master seed, so getStealthKeypair accepts it.
C6_IssuedRecordsRederive ==
    \A r \in issued :
        /\ StealthAddressFor(seedStore, r.index) = r.address
        /\ CheckedKeypair(seedStore, r.address, r.index) # NullKeypair

\* C7: getStealthKeypair(address, index) returns a keypair only if the public key
\* derived from the master seed and index is `address`, and null whenever it is not.
C7_KeypairOnlyOnMatch ==
    (st[1].pc = "done" /\ st[1].op = "getKeypair") =>
        LET matches == (StealthAddressFor(seedStore, st[1].idx) = st[1].addr) IN
        /\ st[1].res # NullKeypair => (matches /\ AddressOf(st[1].res) = st[1].addr)
        /\ ~matches => st[1].res = NullKeypair

\* A wallet address asked for under the wrong index is refused.
C7_Witness ==
    /\ st[1].pc = "done" /\ st[1].op = "getKeypair"
    /\ st[1].addr = StealthAddressFor(seedStore, 0)
    /\ st[1].idx = 1
    /\ st[1].res = NullKeypair

\* C2: once a destroyBurner(id) call has ended, returned or thrown, the secret entry
\* of id is absent, so getBurnerKeypair(id) returns null, whatever operations follow.
C2_DestroyedSecretStaysAbsent ==
    \A id \in destroyedIds : LoadKeypair(id) = NoKeypair

\* C8: when a createBurner call has ended, returned or thrown, the new id has a
\* secret entry if and only if the persisted list has a record with that id.
C8_CreateLeavesSecretIffRecord ==
    (/\ bt[1].pc = "done" /\ bt[1].op = "createBurner"
     /\ bt[1].fail \in {"none", "secret", "list", "save"}) =>
        (secretStore[bt[1].id] # NullItem <=> HasId(StoredList, bt[1].id))

\* The sweep steps of destroyBurner: balance query, blockhash fetch, destination
\* parsing, submission, confirmation.
SweepStepFailed(c) ==
    \/ c.fail = "balance"
    \/ c.caught \in {"blockhash", "destination", "send", "confirm"}

\* C9: a destroyBurner(id, sweepTo) call in which a sweep step failed and no store
\* step did returns to its caller with the secret deleted and the id off the list.
C9_SweepFailureDoesNotStopDestroy ==
    (/\ bt[1].pc = "done" /\ bt[1].op = "destroyBurner" /\ bt[1].to # NoValue
     /\ SweepStepFailed(bt[1])
     /\ bt[1].fail \in {"none", "balance"}) =>
        /\ bt[1].out = "returned"
        /\ secretStore[bt[1].id] = NullItem
        /\ ~HasId(StoredList, bt[1].id)

\* C10: a destroyBurner call whose secret deletion failed has still attempted the
\* list removal, and one whose list read or write failed has attempted the deletion.
C10_RemovalsAttemptedIndependently ==
    (bt[1].pc = "done" /\ bt[1].op = "destroyBurner") =>
        /\ bt[1].fail = "delete" => "list" \in bt[1].tried
        /\ bt[1].fail \in {"list", "save"} => "delete" \in bt[1].tried

\* The positions of `instructions` that do not address the compute budget program.
OtherPositions(instructions) ==
    {i \in 1..Len(instructions) :
        instructions[i].programId # PublicKeyOf(COMPUTE_BUDGET_PROGRAM_ID)}

\* The j-th smallest member of a set of positions.
NthPosition(positions, j) ==
    CHOOSE i \in positions : Cardinality({k \in positions : k <= i}) = j

\* C3: the instructions prepareSwap goes on with, and returns, are exactly the m
\* instructions of the router's list that do not address the compute budget program,
\* in their original order, and none of them addresses it.
C3_FilterKeepsOthersInOrder ==
    (sw.pc = "tables" \/ (sw.pc = "done" /\ sw.out = "returned")) =>
        LET all == AllInstructions(router)
            others == OtherPositions(all) IN
        /\ Len(sw.instructions) = Cardinality(others)
        /\ \A j \in 1..Len(sw.instructions) :
              /\ sw.instructions[j] = all[NthPosition(others, j)]
              /\ sw.instructions[j].programId # PublicKeyOf(COMPUTE_BUDGET_PROGRAM_ID)

\* A returned plan whose route had compute budget instructions before and between
\* two different other instructions.
C3_Witness ==
    /\ sw.pc = "done" /\ sw.out = "returned"
    /\ Len(router.setupInstructions) = 2
    /\ router.setupInstructions[1].programId = COMPUTE_BUDGET_PROGRAM_ID
    /\ router.setupInstructions[2].programId = "Token"
    /\ router.swapInstruction.programId = COMPUTE_BUDGET_PROGRAM_ID
    /\ router.cleanupInstruction # NoInstruction
    /\ router.cleanupInstruction.programId = "JUP"
    /\ Len(sw.instructions) = 2
    /\ sw.instructions[1].programId = PublicKeyOf("Token")
    /\ sw.instructions[2].programId = PublicKeyOf("JUP")

\* C11: once the calls that write the burner list have all completed, whatever way
\* their steps interleaved, the persisted list is the list the returned calls make
\* one after another: every created record present, every destroyed id absent, no
\* label update lost, no other record dropped or duplicated.
C11_ListReflectsEveryCompletedCall ==
    (\A t \in Tasks : BFree(t)) => StoredList = serialList

\* The entries of the sweep log for which the ledger reported a balance.
BalanceReported(entry) ==
    entry.outcome \in {"skipped", "swept", "blockhash failed", "send failed", "confirm failed"}

C13_FailureDoesNotAbortSweep ==
    swp.pc = "done" => Len(swp.log) = Len(swp.funded)

\* C14: prepareSwap never returns a plan with fewer lookup table accounts than the
\* router listed addresses: a table the ledger reports absent fails the call.
C14_AbsentTableFailsPrepareSwap ==
    (sw.pc = "done" /\ sw.out = "returned") =>
        Len(sw.tables) = Len(router.addressLookupTableAddresses)

\* The router's instructions of `instructions` that do not address the compute budget
\* program, in order, as the transaction instructions they deserialize to.
RECURSIVE SurvivorsOf(_)
SurvivorsOf(instructions) ==
    IF instructions = << >> THEN << >>
    ELSE IF Head(instructions).programId = COMPUTE_BUDGET_PROGRAM_ID
         THEN SurvivorsOf(Tail(instructions))
         ELSE <<[programId |-> <<"pubkey", Head(instructions).programId>>,
                 keys |-> [i \in 1..Len(Head(instructions).accounts) |->
                              [pubkey |-> <<"pubkey", Head(instructions).accounts[i].pubkey>>,
                               isSigner |-> Head(instructions).accounts[i].isSigner,
                               isWritable |-> Head(instructions).accounts[i].isWritable]],
                 data |-> <<"buffer", Head(instructions).data>>]>>
              \o SurvivorsOf(Tail(instructions))

\* C15: the instructions prepareSwap returns are the surviving setup instructions in
\* router order, then the swap instruction if it survives, then the cleanup
\* instruction if there is one and it survives.
C15_SetupThenSwapThenCleanup ==
    (sw.pc = "done" /\ sw.out = "returned") =>
        sw.instructions =
            SurvivorsOf(router.setupInstructions)
            \o SurvivorsOf(<<router.swapInstruction>>)
            \o (IF router.cleanupInstruction = NoInstruction THEN << >>
                ELSE SurvivorsOf(<<router.cleanupInstruction>>))

\* Two setup instructions, the first for the compute budget program, a swap and a
\* cleanup instruction: the plan holds setup[1], swap, cleanup in that order.
C15_Witness ==
    /\ sw.pc = "done" /\ sw.out = "returned"
    /\ Len(router.setupInstructions) = 2
    /\ router.setupInstructions[1].programId = COMPUTE_BUDGET_PROGRAM_ID
    /\ router.setupInstructions[2].programId = "ATA"
    /\ router.swapInstruction.programId = "JUP"
    /\ router.cleanupInstruction # NoInstruction
    /\ router.cleanupInstruction.programId = "Token"
    /\ Len(sw.instructions) = 3
    /\ sw.instructions[1].programId = PublicKeyOf("ATA")
    /\ sw.instructions[2].programId = PublicKeyOf("JUP")
    /\ sw.instructions[3].programId = PublicKeyOf("Token")

SeedReturns(t) ==
    /\ st[t].pc \in {"seedRead", "seedWrite"}
    /\ st'[t].pc \notin {"seedRead", "seedWrite"}

\* C17: with one caller at a time the master seed is written only while none is
\* stored, so at most once, and every getOrCreateMasterSeed returns the stored seed;
\* once a seed is stored it returns it without writing.
C17_SeedWrittenOnce ==
    [][ /\ seedStore # NoValue => seedStore' = seedStore
        /\ \A t \in Tasks : SeedReturns(t) => st'[t].seed = seedStore' ]_vars

\* A second generateStealthAddress has returned, on the seed the first one stored.
C17_Witness ==
    /\ st[1].pc = "done" /\ st[1].op = "generate"
    /\ st[1].res.index = 1
    /\ st[1].seed = seedStore
    /\ seedStore # NoValue

\* C20: listBurnersWithBalances returns one entry per record of the persisted list,
\* in list order; a wallet whose balance lookup failed has balance 0, every other
\* wallet its own looked-up balance in SOL, and a failed lookup does not fail the call.
C20_FailedLookupIsZeroForThatWalletOnly ==
    (bt[1].pc = "done" /\ bt[1].op = "listBurnersWithBalances" /\ bt[1].fail # "list") =>
        /\ bt[1].out = "returned"
        /\ Len(bt[1].res) = Len(StoredList)
        /\ Len(bt[1].lookups) = Len(StoredList)
        /\ \A k \in 1..Len(StoredList) :
              /\ bt[1].res[k].id = StoredList[k].id
              /\ bt[1].res[k].label = StoredList[k].label
              /\ bt[1].res[k].publicKey = StoredList[k].publicKey
              /\ bt[1].res[k].balance =
                    IF bt[1].lookups[k].ok THEN <<bt[1].lookups[k].lamports, 1000000000>>
                    ELSE <<0, 1000000000>>

\* Two wallets listed: the lookup of the first failed, the second holds 5001 lamports.
C20_Witness ==
    /\ bt[1].pc = "done" /\ bt[1].op = "listBurnersWithBalances" /\ bt[1].out = "returned"
    /\ Len(bt[1].res) = 2
    /\ ~bt[1].lookups[1].ok
    /\ bt[1].res[1].balance = <<0, 1000000000>>
    /\ bt[1].lookups[2].ok
    /\ bt[1].res[2].balance = <<5001, 1000000000>>

\* The calls sendFromBurner makes to the ledger.
LedgerSteps == {"blockhash", "send", "confirm"}

\* C18: when every createBurner and destroyBurner call has completed, listBurners
\* returns exactly the records created and not destroyed since, each with its secret
\* stored, and sendFromBurner on an id that is not among them fails with the not-found
\* error before any ledger call (its read of the secret store succeeding).
C18_ListIsLiveRecordsAndSendNeedsOne ==
    /\ BFree(1) => \A id \in BurnerIds : HasId(serialList, id) <=> secretStore[id] # NullItem
    /\ (bt[1].pc = "done" /\ bt[1].op = "listBurners" /\ bt[1].out = "returned") =>
          bt[1].res = serialList
    /\ (/\ bt[1].pc = "done" /\ bt[1].op = "sendFromBurner"
        /\ ~HasId(serialList, bt[1].id) /\ bt[1].fail # "load") =>
          /\ bt[1].out = "threw"
          /\ bt[1].fail = "not found"
          /\ bt[1].tried \cap LedgerSteps = {}

\* A send from a destroyed burner was refused while another burner is alive.
C18_Witness ==
    /\ bt[1].pc = "done" /\ bt[1].op = "sendFromBurner"
    /\ bt[1].id \in destroyedIds
    /\ bt[1].fail = "not found"
    /\ Len(serialList) = 1
    /\ StoredList = serialList

\* C19: sendFromBurner called with a malformed recipient, or with an amount of zero
\* or less, throws before any ledger call is made.
C19_SendValidatesBeforeLedger ==
    (/\ bt[1].pc = "done" /\ bt[1].op = "sendFromBurner"
     /\ (bt[1].to = MalformedAddress \/ bt[1].amount <= 0)) =>
        /\ bt[1].out = "threw"
        /\ bt[1].tried \cap LedgerSteps = {}

\* C21: the persisted burner list never holds two records with the same id, and
\* createBurner never stores a secret under an id that a listed record or a stored
\* secret already uses.
C21_IdsNeverReusedWhileLive ==
    /\ \A i, j \in 1..Len(StoredList) : i # j => StoredList[i].id # StoredList[j].id
    /\ bt[1].pc = "c_secret" =>
          (secretStore[bt[1].id] = NullItem /\ ~HasId(StoredList, bt[1].id))

\* C22: a prepareSwap call waiting for the quote, the swap instructions or a lookup
\* table ends in time, with a result or a failure, also when no response ever comes.
C22_SwapCallsEndInTime ==
    (sw.pc \in {"quote", "instructions", "tables"}) ~> (sw.pc = "done")

\* The keypairs derived so far from the master seed.
DerivedKeypairs ==
    {k \in {dv.scanKeypair, dv.spendKeypair, dv.last.keypair, dv.before.keypair} :
        k # NullKeypair}

\* How many derivations those keypairs came from: scan, spend, and each index once.
DerivationsMade ==
    (IF dv.scanKeypair # NullKeypair THEN 2 ELSE 0)
    + Cardinality({dv.last.index, dv.before.index} \ {-1})

\* C23: from one master seed, the scan key, the spend key and the stealth keys of
\* different indices come from pairwise different hash inputs, and are pairwise
\* different keypairs with different public keys.
C23_DerivationInputsDistinct ==
    /\ Cardinality(DerivedKeypairs) = DerivationsMade
    /\ Cardinality({k.secretKey[2] : k \in DerivedKeypairs}) = DerivationsMade
    /\ Cardinality({k.publicKey : k \in DerivedKeypairs}) = DerivationsMade

\* Scan and spend keys derived, and the stealth keys of indices 1 and 11.
C23_Witness ==
    /\ dv.scanKeypair # NullKeypair
    /\ dv.last.index = 11
    /\ dv.before.index = 1
    /\ Cardinality(DerivedKeypairs) = 4

SweepAttempted(c) ==
    c.pc = "d_blockhash" \/ c.tried \cap {"blockhash", "destination"} # {}

\* C26: destroyBurner enters the sweep exactly when sweepTo is given, the secret was
\* loaded and the reported balance is above the fee of 5000 lamports; a transfer it
\* submits is of balance - 5000 lamports to sweepTo, and a call that returns without
\* having attempted the sweep returns null.
C26_SweepIffFundedAboveFee ==
    LET c == bt[1] IN
    c.op = "destroyBurner" =>
        /\ c.pc # "done" =>
              (SweepAttempted(c) <=>
                  /\ c.to # NoValue
                  /\ c.keypair # NoKeypair
                  /\ "balance" \in c.tried
                  /\ c.balance > 5000)
        /\ SweepAttempted(c) => (c.to # NoValue /\ c.balance > 5000)
        /\ c.sig # NoSignature =>
              /\ SweepAttempted(c)
              /\ c.sig[3] = c.to
              /\ c.sig[4] = c.balance - 5000
        /\ (c.out = "returned" /\ ~SweepAttempted(c)) => c.res = NoSignature

\* A burner holding 5001 lamports destroyed with a sweep of 1 lamport.
C26_Witness ==
    /\ bt[1].op = "destroyBurner" /\ bt[1].out = "returned"
    /\ bt[1].balance = 5001
    /\ bt[1].res = bt[1].sig
    /\ bt[1].sig # NoSignature
    /\ bt[1].sig[4] = 1

\* C27: no step of prepareSwap (getQuote, getSwapInstructions, a lookup table fetch,
\* the return, or a failure at any of them) changes the stored master seed, the stealth
\* counter, the burner list or a burner secret; a call left at any step has changed
\* none of them either.
C27_SwapLeavesStoreAlone ==
    [][sw' # sw => UNCHANGED <<seedStore, indexStore, listStore, secretStore>>]_vars

\* prepareSwap has returned on a store that holds a seed, a counter, a burner record
\* and its secret.
C27_Witness ==
    /\ sw.pc = "done" /\ sw.out = "returned"
    /\ seedStore # NoValue
    /\ indexStore # NoValue
    /\ Len(StoredList) = 1
    /\ secretStore["id1"] # NullItem

\* C25: a plan handed to signAndSendTransaction is never built on a quote older than
\* the staleness bound.
C25_StalePlanNeverSigned ==
    xs.pc = "x_sign" => xs.age <= StaleAfter

\* C28: the seed a caller has obtained from getOrCreateMasterSeed is the seed the
\* secure store holds, however the calls interleave.
C28_CallersShareTheStoredSeed ==
    \A t \in Tasks : st[t].seed # NoValue => st[t].seed = seedStore

\* C29: at most one doFetchBalances run is in flight, the in-flight flag is set exactly
\* while one is, and so with no run in flight and a wallet connected a refresh starts one.
C29_OneFetchAtATime ==
    /\ Len(ws.runs) <= 1
    /\ ws.isFetching <=> Len(ws.runs) = 1
    /\ (Len(ws.runs) = 0 /\ ws.wallet # "none") => ENABLED handleRefresh

\* The fetch for the first wallet is still in flight when the second wallet connects:
\* the trigger has started no second run.
C29_Witness ==
    /\ ws.runs = <<"ata">>
    /\ ws.isFetching
    /\ ws.wallet = "w2" /\ ws.lastWallet = "w2"
    /\ ws.solBalance # -1
    /\ ws.hasFetched = FALSE

\* C30: a destroyBurner call without sweepTo on an id that has no stored secret and no
\* record changes neither the list that listBurners reads nor any secret, rewrites a
\* stored list as it was, and returns null; and a call that returns leaves its id with
\* no secret and no record, so that a second call on the id is such a call and leaves
\* the state of the first.
C30_DestroyIdempotent ==
    [][(bt[1].op = "destroyBurner" /\ bt[1].pc # "done" /\ bt[1].to = NoValue) =>
          /\ (secretStore[bt[1].id] = NullItem /\ ~HasId(StoredList, bt[1].id)) =>
                /\ StoredList' = StoredList
                /\ listStore # NullItem => listStore' = listStore
                /\ secretStore' = secretStore
                /\ bt'[1].out = "returned" => bt'[1].res = NoSignature
          /\ bt'[1].out = "returned" =>
                /\ secretStore'[bt[1].id] = NullItem
                /\ ~HasId(StoredList', bt[1].id)]_vars

\* A second destroyBurner call on an id is about to save the list, which holds the
\* record of another burner whose secret is stored.
C30_Witness ==
    /\ bt[1].op = "destroyBurner" /\ bt[1].pc = "d_save" /\ bt[1].to = NoValue
    /\ bt[1].id = "id2" /\ "id2" \in destroyedIds
    /\ bt[1].keypair = NoKeypair
    /\ Len(bt[1].burners) = 1 /\ bt[1].burners[1].id = "id1"
    /\ secretStore["id1"] # NullItem

====
